---------------------------- MODULE Spec2Model ----------------------------
(***************************************************************************)
(* A model of the log extraction, archive reading and live-tail code of    *)
(* the yule repository.                                                    *)
(*                                                                         *)
(*   utils/logExtractor  (src/unnamed/part_000): sanitizePath,             *)
(*       normalizeFolderStructure, processLogContent, extractFromZip,      *)
(*       extractFromTarGz, analyzeZip, analyzeTarGz                        *)
(*   local-logs/extract  (src/app/api/local-logs/extract/route.ts):        *)
(*       processLogContent (strict pattern)                                *)
(*   local-logs/tail     (src/unnamed/part_002): processNewContent,        *)
(*       getFileStates, GET (poll loop, abort listener)                    *)
(*                                                                         *)
(* Text is modelled by TLA+ strings; TLC treats a string as a sequence of  *)
(* one-character strings (Len, SubSeq and \o apply).  A file's content is  *)
(* a sequence of written chunks, the chunk NL being the newline character. *)
(***************************************************************************)
EXTENDS Integers, Sequences, FiniteSets, TLC

VARIABLES
    content,     \* segmenter input: the text of one file (sequence of chunks)
    segMode,     \* which segmenter produced segLogs ("none" before any ran)
    segLogs,     \* the records returned by the segmenter
    dateRange,   \* segmenter input: the date range filter
    tz,          \* the host's offset from UTC, in seconds
    rawPath,     \* sanitizer input: one raw entry path
    cleanPath,   \* sanitizePath(rawPath) once computed ("unset" before)
    normFolder,  \* normalizeFolderStructure(rawPath) once computed
    arKind,      \* archive run: "zip" | "tar", and the operation
    arOp,        \* "extract" | "analyze"
    arEntries,   \* the entries of the archive, in iteration order
    arPos,       \* index of the entry being handled
    arPc,        \* position of the reader
    arLogs,      \* extraction result under construction
    arStats,     \* analysis counters under construction
    arNext,      \* tar reader: number of next() calls made per entry
    arHandler,   \* tar reader: the 'end' listener registered on the stream
    arStreamed,  \* tar reader: chunks of the entry's stream delivered so far
    arBuf,       \* tar reader: the content accumulated by the 'data' listener
    arResult,    \* the value the promise resolved with ("pending" before)
    files,       \* tail: the watched folder on disk, file name -> content
    fileSizeMap, \* tail: byte-size watermark per seen file
    fileLineMap, \* tail: line-count watermark per seen file
    stream,      \* tail: the messages enqueued on the SSE stream
    isActive,    \* tail: the session's isActive flag
    timerOn,     \* tail: the poll interval is armed
    aborted,     \* tail: the request's abort signal has fired
    reads,       \* tail: number of file reads performed by the session
    hist         \* tail: what happened to each file around the last tick

segVars  == <<content, segMode, segLogs, dateRange, tz>>
pathVars == <<rawPath, cleanPath, normFolder>>
arVars   == <<arKind, arOp, arEntries, arPos, arPc, arLogs, arStats, arNext,
              arHandler, arStreamed, arBuf, arResult>>
tailVars == <<files, fileSizeMap, fileLineMap, stream, isActive, timerOn,
              aborted, reads, hist>>
vars     == <<segVars, pathVars, arVars, tailVars>>

-----------------------------------------------------------------------------
(* Bounds of the model.                                                    *)

MaxLines == 4

MaxPathLen == 5

MaxEntries == 3
MaxFileLines == 2
MaxPolls == 2
MaxSegments == 4
MaxAnalyzed == 4
BigLines == 150

-----------------------------------------------------------------------------
(* Strings.                                                                *)

NL == "\n"

Ch(s, i) == SubSeq(s, i, i)

Min(a, b) == IF a < b THEN a ELSE b

Includes(s, sub) ==
    \E i \in 1..(Len(s) - Len(sub) + 1) : SubSeq(s, i, i + Len(sub) - 1) = sub

StartsWith(s, pre) == Len(pre) <= Len(s) /\ SubSeq(s, 1, Len(pre)) = pre

EndsWith(s, suf) ==
    Len(suf) <= Len(s) /\ SubSeq(s, Len(s) - Len(suf) + 1, Len(s)) = suf

UpperChars == "ABCDEFGHIJKLMNOPQRSTUVWXYZ"
LowerChars == "abcdefghijklmnopqrstuvwxyz"
DigitChars == "0123456789"

IsDigit(c) == \E i \in 1..10 : Ch(DigitChars, i) = c

DigitVal(c) == (CHOOSE i \in 1..10 : Ch(DigitChars, i) = c) - 1

\* String.prototype.toLowerCase, character by character
LowerCh(c) ==
    IF \E i \in 1..26 : Ch(UpperChars, i) = c
    THEN Ch(LowerChars, CHOOSE i \in 1..26 : Ch(UpperChars, i) = c)
    ELSE c

\* the regular expression class \s (the characters of it that occur)
IsSpace(c) == c \in {" ", "\t", "\r", "\n"}

RECURSIVE TrimStart(_)
TrimStart(s) ==
    IF s = "" \/ ~IsSpace(Ch(s, 1)) THEN s ELSE TrimStart(SubSeq(s, 2, Len(s)))

RECURSIVE TrimEnd(_)
TrimEnd(s) ==
    IF s = "" \/ ~IsSpace(Ch(s, Len(s))) THEN s
    ELSE TrimEnd(SubSeq(s, 1, Len(s) - 1))

\* String.prototype.trim
Trim(s) == TrimEnd(TrimStart(s))

\* Array.prototype.join
RECURSIVE Join(_, _)
Join(parts, sep) ==
    IF parts = <<>> THEN ""
    ELSE IF Len(parts) = 1 THEN parts[1]
    ELSE parts[1] \o sep \o Join(Tail(parts), sep)

\* content.split('\n') on a chunked text: NL chunks separate the lines,
\* adjacent text chunks belong to one line; the empty text has one empty line.
\* The text is split by halves (the last line of the first half continues in
\* the first line of the second), which keeps the evaluation shallow on long
\* texts.
RECURSIVE SplitLines(_)
SplitLines(chunks) ==
    IF chunks = <<>> THEN <<"">>
    ELSE IF Len(chunks) = 1
    THEN IF chunks[1] = NL THEN <<"", "">> ELSE <<chunks[1]>>
    ELSE LET half  == Len(chunks) \div 2
             left  == SplitLines(SubSeq(chunks, 1, half))
             right == SplitLines(SubSeq(chunks, half + 1, Len(chunks)))
         IN  SubSeq(left, 1, Len(left) - 1)
                \o <<left[Len(left)] \o right[1]>>
                \o Tail(right)

\* the marker at position i of s, compared case-insensitively (flag /i)
HasMarkerAt(s, i, marker) ==
    /\ i + Len(marker) - 1 <= Len(s)
    /\ \A k \in 1..Len(marker) : LowerCh(Ch(s, i + k - 1)) = Ch(marker, k)

\* ^\d{4}-\d{2}-\d{2} at position i of s
HasDateAt(s, i) ==
    /\ i + 9 <= Len(s)
    /\ \A k \in {0, 1, 2, 3, 5, 6, 8, 9} : IsDigit(Ch(s, i + k))
    /\ Ch(s, i + 4) = "-"
    /\ Ch(s, i + 7) = "-"

\* \d{2}:\d{2}:\d{2} at position i of s
HasTimeAt(s, i) ==
    /\ i + 7 <= Len(s)
    /\ \A k \in {0, 1, 3, 4, 6, 7} : IsDigit(Ch(s, i + k))
    /\ Ch(s, i + 2) = ":"
    /\ Ch(s, i + 5) = ":"

Num2(s, i) == 10 * DigitVal(Ch(s, i)) + DigitVal(Ch(s, i + 1))

Num4(s, i) == 100 * Num2(s, i) + Num2(s, i + 2)

\* String.prototype.split(sep) for a one-character separator
SplitStr(s, sep) ==
    LET seps == {i \in 1..Len(s) : Ch(s, i) = sep}
        n    == Cardinality(seps)
        Bound(k) ==
            IF k = 0 THEN 0
            ELSE IF k = n + 1 THEN Len(s) + 1
            ELSE CHOOSE p \in seps : Cardinality({q \in seps : q < p}) = k - 1
    IN  [k \in 1..(n + 1) |-> SubSeq(s, Bound(k - 1) + 1, Bound(k) - 1)]

\* Array.prototype.includes
SeqIncludes(seq, x) == \E i \in 1..Len(seq) : seq[i] = x

-----------------------------------------------------------------------------
(* Dates.  A Date is [valid, t]: t is the time value in seconds since the  *)
(* epoch; an Invalid Date (time value NaN) has valid = FALSE.  zone is the *)
(* host's offset from UTC in seconds (local time = UTC + zone).            *)

InvalidDate == [valid |-> FALSE, t |-> 0]

\* days from 1970-01-01 to the civil date y-m-d (proleptic Gregorian)
DaysFromCivil(y, m, d) ==
    LET yy  == IF m <= 2 THEN y - 1 ELSE y
        era == yy \div 400
        yoe == yy - era * 400
        mp  == IF m > 2 THEN m - 3 ELSE m + 9
        doy == (153 * mp + 2) \div 5 + d - 1
        doe == yoe * 365 + yoe \div 4 - yoe \div 100 + doy
    IN  era * 146097 + doe - 719468

\* new Date(s) for the forms the code passes to it: an ISO date alone is UTC
\* midnight, a date with a time (separated by T, or by a space as the legacy
\* parser accepts) is local time; a month, day, hour, minute or second out of
\* range, or any other text, gives an Invalid Date
DateParse(s, zone) ==
    IF ~HasDateAt(s, 1) THEN InvalidDate
    ELSE LET y == Num4(s, 1)
             m == Num2(s, 6)
             d == Num2(s, 9)
             dayOk == m \in 1..12 /\ d \in 1..31
         IN  IF Len(s) = 10
             THEN IF dayOk
                  THEN [valid |-> TRUE, t |-> DaysFromCivil(y, m, d) * 86400]
                  ELSE InvalidDate
             ELSE IF Len(s) = 19 /\ Ch(s, 11) \in {"T", " "} /\ HasTimeAt(s, 12)
             THEN LET hh == Num2(s, 12)
                      mi == Num2(s, 15)
                      ss == Num2(s, 18)
                  IN  IF dayOk /\ hh < 24 /\ mi < 60 /\ ss < 60
                      THEN [valid |-> TRUE,
                            t |-> DaysFromCivil(y, m, d) * 86400
                                    + hh * 3600 + mi * 60 + ss - zone]
                      ELSE InvalidDate
             ELSE InvalidDate

\* isValidDate
isValidDate(date) == date.valid

NoRange == [startDate |-> "", endDate |-> ""]

\* mutant: the end of the range is the start of its day
isInDateRangeEndMidnight(date, range, zone) ==
    LET startDate == DateParse(range.startDate, zone)
        endDate   == DateParse(range.endDate, zone)
    IN  /\ ~(range.startDate # "" /\ startDate.valid /\ date.t < startDate.t)
        /\ ~(range.endDate # "" /\ endDate.valid /\ date.t > endDate.t)

\* the closure isInDateRange of processLogContent; a comparison with an
\* Invalid Date is false
isInDateRange(date, range, zone) ==
    LET startDate == DateParse(range.startDate, zone)
        endDate   == DateParse(range.endDate \o "T23:59:59", zone)
    IN  /\ ~(range.startDate # "" /\ startDate.valid /\ date.t < startDate.t)
        /\ ~(range.endDate # "" /\ endDate.valid /\ date.t > endDate.t)

-----------------------------------------------------------------------------
(* Paths (node's posix path module).                                       *)

RECURSIVE StripTrailingSlashes(_)
StripTrailingSlashes(p) ==
    IF Len(p) > 1 /\ Ch(p, Len(p)) = "/"
    THEN StripTrailingSlashes(SubSeq(p, 1, Len(p) - 1))
    ELSE p

LastIndexOf(s, c) ==
    IF \E i \in 1..Len(s) : Ch(s, i) = c
    THEN CHOOSE i \in 1..Len(s) :
            Ch(s, i) = c /\ \A j \in (i + 1)..Len(s) : Ch(s, j) # c
    ELSE 0

\* path.dirname
Dirname(p) ==
    IF p = "" THEN "."
    ELSE LET q == StripTrailingSlashes(p)
             i == LastIndexOf(q, "/")
         IN  IF i = 0 THEN "."
             ELSE IF i = 1 THEN "/"
             ELSE StripTrailingSlashes(SubSeq(q, 1, i - 1))

\* path.basename
Basename(p) ==
    LET q == StripTrailingSlashes(p)
    IN  SubSeq(q, LastIndexOf(q, "/") + 1, Len(q))

\* path.extname: from the last dot of the base name, unless that dot is its
\* first character or the base name is ".."
Extname(p) ==
    LET b == Basename(p)
        i == LastIndexOf(b, ".")
    IN  IF i <= 1 \/ b = ".." THEN "" ELSE SubSeq(b, i, Len(b))

\* normalizeString: resolves "." and ".." segments, drops empty ones
RECURSIVE ResolveSegments(_, _, _)
ResolveSegments(segs, acc, absolute) ==
    IF segs = <<>> THEN acc
    ELSE LET s == Head(segs)
             r == Tail(segs)
         IN  IF s = "" \/ s = "." THEN ResolveSegments(r, acc, absolute)
             ELSE IF s = ".."
             THEN IF Len(acc) > 0 /\ acc[Len(acc)] # ".."
                  THEN ResolveSegments(r, SubSeq(acc, 1, Len(acc) - 1), absolute)
                  ELSE IF absolute THEN ResolveSegments(r, acc, absolute)
                  ELSE ResolveSegments(r, Append(acc, ".."), absolute)
             ELSE ResolveSegments(r, Append(acc, s), absolute)

\* path.normalize
PathNormalize(p) ==
    IF p = "" THEN "."
    ELSE LET absolute == Ch(p, 1) = "/"
             trailing == Ch(p, Len(p)) = "/"
             body     == Join(ResolveSegments(SplitStr(p, "/"), <<>>, absolute), "/")
             rel      == IF body = "" /\ ~absolute THEN "." ELSE body
             withSep  == IF rel # "" /\ trailing THEN rel \o "/" ELSE rel
         IN  IF absolute THEN "/" \o withSep ELSE withSep

RECURSIVE StripLeadingSlashes(_)
StripLeadingSlashes(p) ==
    IF p # "" /\ Ch(p, 1) = "/" THEN StripLeadingSlashes(SubSeq(p, 2, Len(p)))
    ELSE p

Rejected == "<null>"

\* mutant: the home-directory shorthand is not checked
sanitizePathNoTilde(filePath) ==
    LET stripped   == StripLeadingSlashes(filePath)
        normalized == PathNormalize(stripped)
    IN  IF Includes(stripped, "..") THEN Rejected
        ELSE IF Includes(normalized, "..") \/ StartsWith(normalized, "/")
        THEN Rejected
        ELSE normalized

\* sanitizePath; Rejected stands for the null it returns
sanitizePath(filePath) ==
    LET stripped   == StripLeadingSlashes(filePath)
        normalized == PathNormalize(stripped)
    IN  IF Includes(stripped, "..") \/ Includes(stripped, "~") THEN Rejected
        ELSE IF Includes(normalized, "..") \/ StartsWith(normalized, "/")
        THEN Rejected
        ELSE normalized

NoiseSegments == {"logs", "log", "var", "tmp", "data", "output"}

\* segment.toLowerCase()
RECURSIVE ToLowerCase(_)
ToLowerCase(s) ==
    IF s = "" THEN "" ELSE LowerCh(Ch(s, 1)) \o ToLowerCase(SubSeq(s, 2, Len(s)))

\* mutant: the segment is compared as written
IsNoiseCaseSensitive(segment) == segment \in NoiseSegments

IsNoise(segment) == ToLowerCase(segment) \in NoiseSegments

\* mutant: date-stamped segments are kept
IsCleanSegmentKeepsDated(segment) ==
    /\ segment # ""
    /\ segment # "."
    /\ ~StartsWith(segment, "__")

IsCleanSegment(segment) ==
    /\ segment # ""
    /\ segment # "."
    /\ ~StartsWith(segment, "__")
    /\ ~HasDateAt(segment, 1)

\* normalizeFolderStructure
normalizeFolderStructure(filePath) ==
    LET segments      == SplitStr(filePath, "/")
        cleanSegments == SelectSeq(segments, IsCleanSegment)
        NotNoise(seg) == ~IsNoise(seg)
        meaningfulSegments == SelectSeq(cleanSegments, NotNoise)
        Remaining(seg) == ~SeqIncludes(meaningfulSegments, seg) /\ ~IsNoise(seg)
        remainingSegments == SelectSeq(cleanSegments, Remaining)
        fallback ==
            IF Len(cleanSegments) > 1
            THEN cleanSegments[1] \o "/" \o cleanSegments[2]
            ELSE IF Len(cleanSegments) = 1 /\ cleanSegments[1] # ""
            THEN cleanSegments[1]
            ELSE "root"
    IN  IF Len(cleanSegments) > 1
        THEN IF Len(meaningfulSegments) > 1
             THEN meaningfulSegments[1] \o "/" \o meaningfulSegments[2]
             ELSE IF Len(meaningfulSegments) > 0
             THEN IF Len(remainingSegments) > 0
                  THEN meaningfulSegments[1] \o "/" \o remainingSegments[1]
                  ELSE meaningfulSegments[1]
             ELSE fallback
        ELSE fallback

\* the qualification test of the archive readers
IsArchiveLogFile(sanitizedPath) ==
    \/ EndsWith(sanitizedPath, ".log")
    \/ EndsWith(sanitizedPath, ".txt")
    \/ Extname(sanitizedPath) = ""

\* the qualification test of findLogFilesRecursive
IsLocalLogFile(item) == EndsWith(item, ".log") \/ EndsWith(item, ".txt")

-----------------------------------------------------------------------------
(* The record segmenters.                                                  *)

\* the lines the model writes into files
ErrorLine    == "2024-01-15 10:00:00 [Error] disk full"
StackLine    == "stack trace line 1"
InfoLine     == "2024-01-15 10:05:00 INFO ok"
WarnLine     == "2024-01-15 10:06:00 WARN queue backing up"
BadMonthLine == "2024-13-45 10:00:00 [Error] bad month"
FrameLine    == "   at frame 7  "
ShortTagLine == "2024-01-15 10:07:00 [ERR] short tag"

LineVocabulary ==
    {ErrorLine, StackLine, InfoLine, WarnLine, BadMonthLine, FrameLine,
     ShortTagLine, ""}

\* the alternatives of the archive pattern's severity group, lower-cased
ArchiveMarkers ==
    {"[error]", "[warning]", "[critical]", "[err]", "[wrn]", "[crit]",
     "[ftl]", "[fat]", "error", "warn", "critical", "fatal"}

\* the alternatives of the tail pattern's severity group, lower-cased
TailMarkers == {"[error]", "[warning]", "[critical]", "error", "warn", "critical"}

\* the alternatives of the local-extract pattern's bracketed group
LocalMarkers ==
    {"[error]", "[warning]", "[critical]", "[err]", "[wrn]", "[crit]",
     "[ftl]", "[fat]"}

NoMatch == [matched |-> FALSE, g1 |-> ""]

\* start of the run of \s characters that ends just before position k
RECURSIVE SpaceRunStart(_, _)
SpaceRunStart(s, k) ==
    IF k > 1 /\ IsSpace(Ch(s, k - 1)) THEN SpaceRunStart(s, k - 1) ELSE k

\* /^(\d{4}-\d{2}-\d{2}.*?)\s+(marker)/i : the lazy group 1 ends where the
\* whitespace before the first marker that follows whitespace begins
MatchDateMarker(line, markers) ==
    LET starts == {k \in 12..Len(line) :
                      /\ IsSpace(Ch(line, k - 1))
                      /\ \E m \in markers : HasMarkerAt(line, k, m)}
    IN  IF ~HasDateAt(line, 1) \/ starts = {} THEN NoMatch
        ELSE LET k == CHOOSE x \in starts : \A y \in starts : x <= y
             IN  [matched |-> TRUE,
                  g1 |-> SubSeq(line, 1, SpaceRunStart(line, k) - 1)]

\* end of the run of \s characters that starts at position i
RECURSIVE SpaceRunEnd(_, _)
SpaceRunEnd(s, i) ==
    IF i <= Len(s) /\ IsSpace(Ch(s, i)) THEN SpaceRunEnd(s, i + 1) ELSE i

\* end of the greedy run [\d.:+\s-]* that starts at position i
RECURSIVE ClassRunEnd(_, _)
ClassRunEnd(s, i) ==
    IF i <= Len(s) /\ (IsDigit(Ch(s, i)) \/ IsSpace(Ch(s, i))
                        \/ Ch(s, i) \in {".", ":", "+", "-"})
    THEN ClassRunEnd(s, i + 1)
    ELSE i

\* /^(\d{4}-\d{2}-\d{2}[T\s]\d{2}:\d{2}:\d{2}[\d.:+\s-]*)\s*\[(marker)\]/i
MatchLocalRaw(line) ==
    IF /\ HasDateAt(line, 1)
       /\ Len(line) >= 19
       /\ (Ch(line, 11) = "T" \/ IsSpace(Ch(line, 11)))
       /\ HasTimeAt(line, 12)
    THEN LET e == ClassRunEnd(line, 20)
         IN  IF \E m \in LocalMarkers : HasMarkerAt(line, e, m)
             THEN [matched |-> TRUE, g1 |-> SubSeq(line, 1, e - 1)]
             ELSE NoMatch
    ELSE NoMatch

ArchiveMatchTable == [l \in LineVocabulary |-> MatchDateMarker(l, ArchiveMarkers)]
TailMatchTable    == [l \in LineVocabulary |-> MatchDateMarker(l, TailMarkers)]
LocalMatchTable   == [l \in LineVocabulary |-> MatchLocalRaw(l)]
TrimTable         == [l \in LineVocabulary |-> Trim(l)]

\* line.match(logPattern) of the archive segmenter
MatchArchive(line) ==
    IF line \in LineVocabulary THEN ArchiveMatchTable[line]
    ELSE MatchDateMarker(line, ArchiveMarkers)

\* line.match(logPattern) of the tail segmenter
MatchTail(line) ==
    IF line \in LineVocabulary THEN TailMatchTable[line]
    ELSE MatchDateMarker(line, TailMarkers)

\* line.match(logPattern) of the local-extract segmenter
MatchLocal(line) ==
    IF line \in LineVocabulary THEN LocalMatchTable[line] ELSE MatchLocalRaw(line)

\* line.trim()
TrimLine(line) == IF line \in LineVocabulary THEN TrimTable[line] ELSE Trim(line)

\* the scan state: logs, currentError, errorStartLine, errorDate
ScanInit(startLine) ==
    [logs |-> <<>>, currentError |-> <<>>, errorStartLine |-> startLine,
     errorDate |-> InvalidDate]

\* mutant: the 0-based index of the anchor is reported as the line number
LogEntryZeroBased(st, folder, filename) ==
    [folder     |-> folder,
     file       |-> filename,
     lineNumber |-> st.errorStartLine,
     content    |-> Trim(Join(st.currentError, NL)),
     date       |-> st.errorDate.t]

\* the record pushed by the archive and local-extract segmenters
LogEntry(st, folder, filename) ==
    [folder     |-> folder,
     file       |-> filename,
     lineNumber |-> st.errorStartLine + 1,
     content    |-> Trim(Join(st.currentError, NL)),
     date       |-> st.errorDate.t]

\* mutant: the flushed buffer is not cleared, so a record keeps growing
FlushRecordKeepsBuffer(st, folder, filename, range, zone) ==
    IF Len(st.currentError) > 0 /\ st.errorDate.valid
    THEN [st EXCEPT
            !.logs = IF isInDateRange(st.errorDate, range, zone)
                     THEN Append(@, LogEntry(st, folder, filename))
                     ELSE @]
    ELSE st

\* the flush of the open buffer: only a buffer with a date is flushed, and
\* only a flushed buffer is cleared
\* mutant: a record outside the date range stays in the buffer
FlushRecordKeepsFiltered(st, folder, filename, range, zone) ==
    IF Len(st.currentError) > 0 /\ st.errorDate.valid
         /\ isInDateRange(st.errorDate, range, zone)
    THEN [st EXCEPT
            !.logs = Append(@, LogEntry(st, folder, filename)),
            !.currentError = <<>>,
            !.errorDate = InvalidDate]
    ELSE st

FlushRecord(st, folder, filename, range, zone) ==
    IF Len(st.currentError) > 0 /\ st.errorDate.valid
    THEN [st EXCEPT
            !.logs = IF isInDateRange(st.errorDate, range, zone)
                     THEN Append(@, LogEntry(st, folder, filename))
                     ELSE @,
            !.currentError = <<>>,
            !.errorDate = InvalidDate]
    ELSE st

\* the final flush after the scan
FinalFlush(st, folder, filename, range, zone) ==
    IF Len(st.currentError) > 0 /\ st.errorDate.valid
         /\ isInDateRange(st.errorDate, range, zone)
    THEN Append(st.logs, LogEntry(st, folder, filename))
    ELSE st.logs

\* the body of lines.forEach in the archive processLogContent
ArchiveLineStep(st, line, index, folder, filename, range, zone) ==
    LET match == MatchArchive(line)
    IN  IF match.matched
        THEN LET flushed    == FlushRecord(st, folder, filename, range, zone)
                 parsedDate == DateParse(match.g1, zone)
             IN  [flushed EXCEPT
                    !.errorStartLine = index,
                    !.currentError = Append(@, TrimLine(line)),
                    !.errorDate = IF isValidDate(parsedDate) THEN parsedDate ELSE @]
        ELSE IF Len(st.currentError) > 0
        THEN [st EXCEPT !.currentError = Append(@, TrimLine(line))]
        ELSE st

RECURSIVE ArchiveScan(_, _, _, _, _, _, _)
ArchiveScan(st, lines, index, folder, filename, range, zone) ==
    IF index >= Len(lines) THEN st
    ELSE ArchiveScan(
            ArchiveLineStep(st, lines[index + 1], index, folder, filename, range, zone),
            lines, index + 1, folder, filename, range, zone)

\* mutant: the folder is derived from the file's path, not its directory
processLogContentFolderOfFile(text, filename, range, zone) ==
    LET folder == normalizeFolderStructure(filename)
        lines  == SplitLines(text)
        st     == ArchiveScan(ScanInit(0), lines, 0, folder, filename, range, zone)
    IN  FinalFlush(st, folder, filename, range, zone)

\* processLogContent of utils/logExtractor
processLogContent(text, filename, range, zone) ==
    LET folder == normalizeFolderStructure(Dirname(filename))
        lines  == SplitLines(text)
        st     == ArchiveScan(ScanInit(0), lines, 0, folder, filename, range, zone)
    IN  FinalFlush(st, folder, filename, range, zone)

\* the date of an anchor in the local-extract segmenter: the whole group,
\* trimmed, else just its YYYY-MM-DD HH:MM:SS
LocalParseDate(g1, zone) ==
    LET dateStr == Trim(g1)
        full    == DateParse(dateStr, zone)
    IN  IF isValidDate(full) THEN full
        ELSE LET e == SpaceRunEnd(dateStr, 11)
             IN  IF HasDateAt(dateStr, 1) /\ e > 11 /\ HasTimeAt(dateStr, e)
                 THEN DateParse(SubSeq(dateStr, 1, 10) \o "T"
                                  \o SubSeq(dateStr, e, e + 7), zone)
                 ELSE full

\* the body of lines.forEach in the local-extract processLogContent
LocalLineStep(st, line, index, folder, filename, range, zone) ==
    LET match == MatchLocal(line)
    IN  IF match.matched
        THEN LET flushed    == FlushRecord(st, folder, filename, range, zone)
                 parsedDate == LocalParseDate(match.g1, zone)
             IN  [flushed EXCEPT
                    !.errorStartLine = index,
                    !.currentError = Append(@, TrimLine(line)),
                    !.errorDate = IF isValidDate(parsedDate) THEN parsedDate ELSE @]
        ELSE IF Len(st.currentError) > 0
        THEN [st EXCEPT !.currentError = Append(@, TrimLine(line))]
        ELSE st

RECURSIVE LocalScan(_, _, _, _, _, _, _)
LocalScan(st, lines, index, folder, filename, range, zone) ==
    IF index >= Len(lines) THEN st
    ELSE LocalScan(
            LocalLineStep(st, lines[index + 1], index, folder, filename, range, zone),
            lines, index + 1, folder, filename, range, zone)

\* processLogContent of the local-extract route
localProcessLogContent(text, folder, filename, range, zone) ==
    LET lines == SplitLines(text)
        st    == LocalScan(ScanInit(0), lines, 0, folder, filename, range, zone)
    IN  FinalFlush(st, folder, filename, range, zone)

\* number.toString() for the small numbers of a record id
RECURSIVE NumStr(_)
NumStr(n) ==
    IF n < 10 THEN Ch(DigitChars, n + 1)
    ELSE NumStr(n \div 10) \o Ch(DigitChars, (n % 10) + 1)

\* the record pushed by the tail segmenter, with its derived id
TailEntry(st, folder, filename) ==
    [folder     |-> folder,
     file       |-> filename,
     lineNumber |-> st.errorStartLine + 1,
     content    |-> Trim(Join(st.currentError, NL)),
     date       |-> st.errorDate.t,
     id         |-> folder \o "-" \o filename \o "-" \o NumStr(st.errorStartLine)
                      \o "-" \o NumStr(st.errorDate.t) \o "000"]

TailFlush(st, folder, filename) ==
    IF Len(st.currentError) > 0 /\ st.errorDate.valid
    THEN [st EXCEPT
            !.logs = Append(@, TailEntry(st, folder, filename)),
            !.currentError = <<>>,
            !.errorDate = InvalidDate]
    ELSE st

\* the body of lines.forEach in processNewContent
TailLineStep(st, line, index, folder, filename, startLine, zone) ==
    LET match == MatchTail(line)
    IN  IF match.matched
        THEN LET flushed    == TailFlush(st, folder, filename)
                 parsedDate == DateParse(match.g1, zone)
             IN  [flushed EXCEPT
                    !.errorStartLine = startLine + index,
                    !.currentError = Append(@, TrimLine(line)),
                    !.errorDate = IF isValidDate(parsedDate) THEN parsedDate ELSE @]
        ELSE IF Len(st.currentError) > 0
        THEN [st EXCEPT !.currentError = Append(@, TrimLine(line))]
        ELSE st

RECURSIVE TailScan(_, _, _, _, _, _, _)
TailScan(st, lines, index, folder, filename, startLine, zone) ==
    IF index >= Len(lines) THEN st
    ELSE TailScan(
            TailLineStep(st, lines[index + 1], index, folder, filename, startLine, zone),
            lines, index + 1, folder, filename, startLine, zone)

\* processNewContent of the tail route
processNewContent(text, folder, filename, startLine, zone) ==
    TailFlush(TailScan(ScanInit(startLine), SplitStr(text, NL), 0, folder,
                       filename, startLine, zone),
              folder, filename).logs

-----------------------------------------------------------------------------
(* Values the variables of a subsystem hold while another one runs.        *)

SegIdle ==
    /\ content = <<>>
    /\ segMode = "idle"
    /\ segLogs = <<>>
    /\ dateRange = NoRange
    /\ tz = 0

PathIdle ==
    /\ rawPath = ""
    /\ cleanPath = "idle"
    /\ normFolder = "idle"

ArIdle ==
    /\ arKind = "idle"
    /\ arOp = "idle"
    /\ arEntries = <<>>
    /\ arPos = 0
    /\ arPc = "idle"
    /\ arLogs = <<>>
    /\ arStats = <<>>
    /\ arNext = <<>>
    /\ arHandler = "none"
    /\ arStreamed = 0
    /\ arBuf = <<>>
    /\ arResult = "idle"

TailIdle ==
    /\ files = <<>>
    /\ fileSizeMap = <<>>
    /\ fileLineMap = <<>>
    /\ stream = <<>>
    /\ isActive = FALSE
    /\ timerOn = FALSE
    /\ aborted = FALSE
    /\ reads = 0
    /\ hist = <<>>

-----------------------------------------------------------------------------
(* Segmentation of one file: the three segmenters applied to a text.       *)

SegFile == "svc1/app-2024-01-15.log"
SegFolder == "svc1"
SegName == "app-2024-01-15.log"

\* the chunks of a text with the given lines
RECURSIVE ChunksOf(_)
ChunksOf(lines) ==
    IF lines = <<>> THEN <<>>
    ELSE (IF Head(lines) = "" THEN <<>> ELSE <<Head(lines)>>)
            \o (IF Len(lines) > 1 THEN <<NL>> ELSE <<>>)
            \o ChunksOf(Tail(lines))

\* the text of a chunked content, as one string
RECURSIVE Concat(_)
Concat(chunks) == IF chunks = <<>> THEN "" ELSE Head(chunks) \o Concat(Tail(chunks))

SegContents ==
    {ChunksOf(ls) : ls \in UNION {[1..n -> LineVocabulary] : n \in 1..MaxLines}}

SegInit ==
    /\ content \in SegContents
    /\ segMode = "none"
    /\ segLogs = <<>>
    /\ dateRange = NoRange
    /\ tz = 0
    /\ PathIdle /\ ArIdle /\ TailIdle

\* extraction of one archive entry's text
SegArchive ==
    /\ segMode = "none"
    /\ segMode' = "archive"
    /\ segLogs' = processLogContent(content, SegFile, dateRange, tz)
    /\ UNCHANGED <<content, dateRange, tz, pathVars, arVars, tailVars>>

\* extraction of one local file's text
SegLocal ==
    /\ segMode = "none"
    /\ segMode' = "local"
    /\ segLogs' = localProcessLogContent(content, SegFolder, SegName, dateRange, tz)
    /\ UNCHANGED <<content, dateRange, tz, pathVars, arVars, tailVars>>

\* segmentation of a text by the tail segmenter, from line offset 0
SegTail ==
    /\ segMode = "none"
    /\ segMode' = "tail"
    /\ segLogs' = processNewContent(Concat(content), SegFolder, SegName, 0, tz)
    /\ UNCHANGED <<content, dateRange, tz, pathVars, arVars, tailVars>>

SegNext == SegArchive \/ SegLocal \/ SegTail

SegSpec == SegInit /\ [][SegNext]_vars

-----------------------------------------------------------------------------
(* Properties of segmentation (checked under SegSpec).                     *)

SegLines == SplitLines(content)

\* the anchor test and anchor date of the segmenter that ran
SegMatch(line) ==
    IF segMode = "local" THEN MatchLocal(line)
    ELSE IF segMode = "tail" THEN MatchTail(line)
    ELSE MatchArchive(line)

SegAnchorDate(line) ==
    IF segMode = "local" THEN LocalParseDate(SegMatch(line).g1, tz)
    ELSE DateParse(SegMatch(line).g1, tz)

IsAnchorAt(i) == SegMatch(SegLines[i]).matched

\* the 1-based indices of the anchor lines, in order
AnchorIndices ==
    SelectSeq([i \in 1..Len(SegLines) |-> i], IsAnchorAt)

\* the last line of the block that the anchor at line i opens
BlockEnd(i) ==
    IF \E j \in (i + 1)..Len(SegLines) : IsAnchorAt(j)
    THEN (CHOOSE j \in (i + 1)..Len(SegLines) :
            IsAnchorAt(j) /\ \A k \in (i + 1)..(j - 1) : ~IsAnchorAt(k)) - 1
    ELSE Len(SegLines)

\* the anchor line at i followed by the lines up to the next anchor, each
\* trimmed, joined by newlines, the block trimmed
OwnBlock(i) ==
    Trim(Join([j \in 1..(BlockEnd(i) - i + 1) |-> Trim(SegLines[i + j - 1])], NL))

C1File == <<ErrorLine, NL, StackLine, NL, InfoLine, NL, WarnLine>>

\* C1 (as stated): the four-line file svc1/app-2024-01-15.log with no date
\* range yields exactly two records, at line 1 (the "disk full" anchor and the
\* stack trace line only, folder svc1) and at line 4; the INFO line is in no
\* record's content.
C1_InfoLineDiscarded ==
    (segMode = "archive" /\ content = C1File) =>
        /\ Len(segLogs) = 2
        /\ segLogs[1].lineNumber = 1
        /\ segLogs[1].folder = "svc1"
        /\ segLogs[1].content = ErrorLine \o NL \o StackLine
        /\ segLogs[2].lineNumber = 4
        /\ \A i \in 1..Len(segLogs) : ~Includes(segLogs[i].content, InfoLine)

\* C1 (amended): the same file yields exactly two records, at line 1 and at
\* line 4, both of folder svc1; the INFO line produces no record of its own
\* but, a buffer being open, is appended as a continuation line to the record
\* at line 1, whose content is the anchor, the stack trace line and the INFO
\* line.
C1_InfoLineContinues ==
    (segMode = "archive" /\ content = C1File) =>
        /\ Len(segLogs) = 2
        /\ segLogs[1].lineNumber = 1
        /\ segLogs[1].folder = "svc1"
        /\ segLogs[1].content = ErrorLine \o NL \o StackLine \o NL \o InfoLine
        /\ segLogs[2].lineNumber = 4
        /\ segLogs[2].folder = "svc1"
        /\ segLogs[2].content = WarnLine

C1_Witness == segMode = "archive" /\ content = C1File /\ Len(segLogs) = 2

\* C2: in each of the three segmenters a record whose anchor has no parsed
\* date is dropped entirely: every emitted record starts at a dated anchor and
\* its content is that anchor's own block, so no line of an undated record
\* shows up in any record, the next anchor's included.
C2_UndatedRecordDropped ==
    segMode \in {"archive", "local", "tail"} =>
        \A r \in 1..Len(segLogs) :
            LET n == segLogs[r].lineNumber
            IN  /\ n \in 1..Len(SegLines)
                /\ IsAnchorAt(n)
                /\ SegAnchorDate(SegLines[n]).valid
                /\ segLogs[r].content = OwnBlock(n)

AllAnchorsDated ==
    \A i \in 1..Len(SegLines) : IsAnchorAt(i) => SegAnchorDate(SegLines[i]).valid

\* C10: when every anchor line of a file has a parseable date and there is no
\* date range, the archive segmenter emits exactly one record per anchor line,
\* in order, numbered by the anchor's 1-based line, whose content is the anchor
\* line and the non-anchor lines up to the next anchor, each trimmed, joined by
\* newlines, the block trimmed.
C10_OneRecordPerAnchor ==
    (segMode = "archive" /\ dateRange = NoRange /\ AllAnchorsDated) =>
        /\ Len(segLogs) = Len(AnchorIndices)
        /\ \A k \in 1..Len(segLogs) :
              /\ segLogs[k].lineNumber = AnchorIndices[k]
              /\ segLogs[k].content = OwnBlock(AnchorIndices[k])
              /\ segLogs[k].date = SegAnchorDate(SegLines[AnchorIndices[k]]).t

\* an anchor directly after an anchor, then an anchor with two continuation
\* lines (one of them indented)
C10_Witness ==
    /\ segMode = "archive"
    /\ content = <<WarnLine, NL, ErrorLine, NL, StackLine, NL, FrameLine>>
    /\ Len(segLogs) = 2
    /\ segLogs[1].content = WarnLine
    /\ segLogs[2].lineNumber = 2
    /\ segLogs[2].content = ErrorLine \o NL \o StackLine \o NL \o "at frame 7"

-----------------------------------------------------------------------------
(* The path sanitizer applied to one raw path.                             *)

PathAlphabet == {".", "/", "~", "a"}

PathInputs ==
    {Concat(cs) : cs \in UNION {[1..n -> PathAlphabet] : n \in 0..MaxPathLen}}

PathInit ==
    /\ rawPath \in PathInputs
    /\ cleanPath = "unset"
    /\ normFolder = "idle"
    /\ SegIdle /\ ArIdle /\ TailIdle

Sanitize ==
    /\ cleanPath = "unset"
    /\ cleanPath' = sanitizePath(rawPath)
    /\ UNCHANGED <<rawPath, normFolder, segVars, arVars, tailVars>>

PathNext == Sanitize

-----------------------------------------------------------------------------
(* The archive readers.  An archive is the sequence of entries the         *)
(* container library hands to the code: zip.files in iteration order, or   *)
(* the headers and streams tar-stream emits.                               *)

SampleLines == 100

\* /\d{4}-\d{2}-\d{2}/ anywhere in the line: new Date(dateMatch[0])
LineDateRaw(line) ==
    LET hits == {i \in 1..Len(line) : HasDateAt(line, i)}
    IN  IF hits = {} THEN InvalidDate
        ELSE LET i == CHOOSE x \in hits : \A y \in hits : x <= y
             IN  DateParse(SubSeq(line, i, i + 9), 0)

\* the analyzers' logPattern.test(line): a marker anywhere in the line
LineHasMarkerRaw(line) ==
    \E i \in 1..Len(line) : \E m \in ArchiveMarkers : HasMarkerAt(line, i, m)

LineDateTable   == [l \in LineVocabulary |-> LineDateRaw(l)]
LineMarkerTable == [l \in LineVocabulary |-> LineHasMarkerRaw(l)]

LineDate(line) ==
    IF line \in LineVocabulary THEN LineDateTable[line] ELSE LineDateRaw(line)

LineHasMarker(line) ==
    IF line \in LineVocabulary THEN LineMarkerTable[line] ELSE LineHasMarkerRaw(line)

\* content.length
RECURSIVE TextLength(_)
TextLength(chunks) ==
    IF chunks = <<>> THEN 0
    ELSE IF Len(chunks) = 1 THEN Len(chunks[1])
    ELSE TextLength(SubSeq(chunks, 1, Len(chunks) \div 2))
            + TextLength(SubSeq(chunks, Len(chunks) \div 2 + 1, Len(chunks)))

\* the dates pushed for the sampled lines, in order
SampleDates(lines) ==
    LET dated == SelectSeq(lines, LAMBDA line : isValidDate(LineDate(line)))
    IN  [i \in 1..Len(dated) |-> LineDate(dated[i]).t]

\* the number of sampled lines that carry a severity marker
SampleMatches(lines) ==
    Cardinality({i \in 1..Len(lines) : LineHasMarker(lines[i])})

\* content.split('\n').slice(0, 100)
SampleOf(text) ==
    LET lines == SplitLines(text)
    IN  SubSeq(lines, 1, Min(SampleLines, Len(lines)))

NoStats ==
    [totalFiles |-> 0, logFiles |-> 0, totalSize |-> 0, folders |-> {},
     dates |-> <<>>, estimatedLogEntries |-> 0]

\* two decimal digits, four decimal digits
Pad2(n) == Ch(DigitChars, (n \div 10) + 1) \o Ch(DigitChars, (n % 10) + 1)
Pad4(n) == Pad2(n \div 100) \o Pad2(n % 100)

\* date.toISOString().split('T')[0] of a time value in seconds
IsoDate(t) ==
    LET z   == (t \div 86400) + 719468
        era == z \div 146097
        doe == z - era * 146097
        yoe == (doe - doe \div 1460 + doe \div 36524 - doe \div 146096) \div 365
        doy == doe - (365 * yoe + yoe \div 4 - yoe \div 100)
        mp  == (5 * doy + 2) \div 153
        d   == doy - (153 * mp + 2) \div 5 + 1
        m   == IF mp < 10 THEN mp + 3 ELSE mp - 9
        y   == yoe + era * 400 + (IF m <= 2 THEN 1 ELSE 0)
    IN  Pad4(y) \o "-" \o Pad2(m) \o "-" \o Pad2(d)

SeqMin(seq) == CHOOSE x \in {seq[i] : i \in 1..Len(seq)} :
                  \A i \in 1..Len(seq) : x <= seq[i]
SeqMax(seq) == CHOOSE x \in {seq[i] : i \in 1..Len(seq)} :
                  \A i \in 1..Len(seq) : x >= seq[i]

\* mutant: latest is reported only when there is more than one date
AnalysisLatestNeedsTwo(stats) ==
    [totalFiles |-> stats.totalFiles,
     logFiles   |-> stats.logFiles,
     totalSize  |-> stats.totalSize,
     folders    |-> stats.folders,
     dateRange  |->
        [earliest |-> IF Len(stats.dates) > 0 THEN IsoDate(SeqMin(stats.dates))
                      ELSE "null",
         latest   |-> IF Len(stats.dates) > 1 THEN IsoDate(SeqMax(stats.dates))
                      ELSE "null"],
     estimatedLogEntries |-> stats.estimatedLogEntries]

\* the ArchiveAnalysis object built from the counters; folders is the set of
\* the sorted folder array
Analysis(stats) ==
    [totalFiles |-> stats.totalFiles,
     logFiles   |-> stats.logFiles,
     totalSize  |-> stats.totalSize,
     folders    |-> stats.folders,
     dateRange  |->
        [earliest |-> IF Len(stats.dates) > 0 THEN IsoDate(SeqMin(stats.dates))
                      ELSE "null",
         latest   |-> IF Len(stats.dates) > 0 THEN IsoDate(SeqMax(stats.dates))
                      ELSE "null"],
     estimatedLogEntries |-> stats.estimatedLogEntries]

\* analyzeZip: the counters after a qualifying file's content was sampled;
\* the running estimate is scaled as a whole by this file's ratio
ZipSampled(stats, sanitizedPath, text) ==
    LET lines      == SampleOf(text)
        totalLines == Len(SplitLines(text))
        counted    == stats.estimatedLogEntries + SampleMatches(lines)
    IN  [stats EXCEPT
            !.logFiles  = @ + 1,
            !.folders   = @ \cup {normalizeFolderStructure(Dirname(sanitizedPath))},
            !.totalSize = @ + TextLength(text),
            !.dates     = @ \o SampleDates(lines),
            !.estimatedLogEntries =
                IF Len(lines) > 0 THEN (counted * totalLines) \div Len(lines)
                ELSE counted]

\* analyzeTarGz: the counters when the entry handler has counted a qualifying
\* file, and when its stream has ended and its content was sampled
TarCounted(stats, sanitizedPath) ==
    [stats EXCEPT
        !.logFiles = @ + 1,
        !.folders  = @ \cup {normalizeFolderStructure(Dirname(sanitizedPath))}]

TarSampled(stats, text) ==
    LET lines      == SampleOf(text)
        totalLines == Len(SplitLines(text))
    IN  [stats EXCEPT
            !.totalSize = @ + TextLength(text),
            !.dates     = @ \o SampleDates(lines),
            !.estimatedLogEntries =
                IF Len(lines) > 0
                THEN @ + (SampleMatches(lines) * totalLines) \div Len(lines)
                ELSE @]

\* the entries archives are built from
ArEntrySet ==
    {[name |-> "svc1/app.log",     type |-> "file", text |-> <<ErrorLine, NL, StackLine>>],
     [name |-> "/var/log/sys.txt", type |-> "file", text |-> <<WarnLine, NL>>],
     [name |-> "../../etc/passwd", type |-> "file", text |-> <<WarnLine, NL>>],
     [name |-> "~tmp/old.log",     type |-> "file", text |-> <<ErrorLine>>],
     [name |-> "svc1/readme.md",   type |-> "file", text |-> <<WarnLine>>],
     [name |-> "svc2/",            type |-> "directory", text |-> <<>>]}

Archives == UNION {[1..n -> ArEntrySet] : n \in 1..MaxEntries}

\* the keys of zip.files are distinct
DistinctNames(entries) ==
    \A i, j \in 1..Len(entries) : entries[i].name = entries[j].name => i = j

ArInit ==
    /\ arKind \in {"zip", "tar"}
    /\ arOp \in {"extract", "analyze"}
    /\ arEntries \in Archives
    /\ arKind = "zip" => DistinctNames(arEntries)
    /\ arPos = 1
    /\ arPc = IF arKind = "zip" THEN "loop" ELSE "header"
    /\ arLogs = <<>>
    /\ arStats = NoStats
    /\ arNext = [i \in 1..Len(arEntries) |-> 0]
    /\ arHandler = "none"
    /\ arStreamed = 0
    /\ arBuf = <<>>
    /\ arResult = "pending"
    /\ SegIdle /\ PathIdle /\ TailIdle

\* mutant: the records of an entry are put before those already collected
ZipExtractStepPrepends(logs, file, range, zone) ==
    LET sanitizedPath == sanitizePath(file.name)
    IN  IF sanitizedPath = Rejected THEN logs
        ELSE IF file.type # "directory" /\ IsArchiveLogFile(sanitizedPath)
        THEN processLogContent(file.text, sanitizedPath, range, zone) \o logs
        ELSE logs

\* extractFromZip: the body of the loop over zip.files, on logs
ZipExtractStep(logs, file, range, zone) ==
    LET sanitizedPath == sanitizePath(file.name)
    IN  IF sanitizedPath = Rejected THEN logs
        ELSE IF file.type # "directory" /\ IsArchiveLogFile(sanitizedPath)
        THEN logs \o processLogContent(file.text, sanitizedPath, range, zone)
        ELSE logs

\* extractFromZip: one iteration of the loop over zip.files
ZipExtractEntry ==
    /\ arKind = "zip" /\ arOp = "extract" /\ arPc = "loop"
    /\ arPos <= Len(arEntries)
    /\ arLogs' = ZipExtractStep(arLogs, arEntries[arPos], dateRange, tz)
    /\ arPos' = arPos + 1
    /\ UNCHANGED <<arKind, arOp, arEntries, arPc, arStats, arNext, arHandler,
                   arStreamed, arBuf, arResult, segVars, pathVars, tailVars>>

\* extractFromZip: return logs
ZipExtractReturn ==
    /\ arKind = "zip" /\ arOp = "extract" /\ arPc = "loop"
    /\ arPos > Len(arEntries)
    /\ arPc' = "done"
    /\ arResult' = arLogs
    /\ UNCHANGED <<arKind, arOp, arEntries, arPos, arLogs, arStats, arNext,
                   arHandler, arStreamed, arBuf, segVars, pathVars, tailVars>>

\* mutant: the file is counted before its path is checked
ZipAnalyzeStepCountsFirst(stats, file) ==
    LET sanitizedPath == sanitizePath(file.name)
        counted == [stats EXCEPT !.totalFiles = @ + 1]
    IN  IF file.type = "directory" THEN stats
        ELSE IF sanitizedPath = Rejected THEN counted
        ELSE IF IsArchiveLogFile(sanitizedPath)
        THEN ZipSampled(counted, sanitizedPath, file.text)
        ELSE counted

\* analyzeZip: the body of the loop over zip.files, on the counters
ZipAnalyzeStep(stats, file) ==
    LET sanitizedPath == sanitizePath(file.name)
        counted == [stats EXCEPT !.totalFiles = @ + 1]
    IN  IF sanitizedPath = Rejected \/ file.type = "directory" THEN stats
        ELSE IF IsArchiveLogFile(sanitizedPath)
        THEN ZipSampled(counted, sanitizedPath, file.text)
        ELSE counted

\* analyzeZip: one iteration of the loop over zip.files
ZipAnalyzeEntry ==
    /\ arKind = "zip" /\ arOp = "analyze" /\ arPc = "loop"
    /\ arPos <= Len(arEntries)
    /\ arStats' = ZipAnalyzeStep(arStats, arEntries[arPos])
    /\ arPos' = arPos + 1
    /\ UNCHANGED <<arKind, arOp, arEntries, arPc, arLogs, arNext, arHandler,
                   arStreamed, arBuf, arResult, segVars, pathVars, tailVars>>

\* analyzeZip: return the analysis
ZipAnalyzeReturn ==
    /\ arKind = "zip" /\ arOp = "analyze" /\ arPc = "loop"
    /\ arPos > Len(arEntries)
    /\ arPc' = "done"
    /\ arResult' = Analysis(arStats)
    /\ UNCHANGED <<arKind, arOp, arEntries, arPos, arLogs, arStats, arNext,
                   arHandler, arStreamed, arBuf, segVars, pathVars, tailVars>>

\* mutant: a rejected path returns from the handler without an 'end' listener
TarExtractListenerNoSkip(header) ==
    LET sanitizedPath == sanitizePath(header.name)
    IN  IF sanitizedPath = Rejected THEN "none"
        ELSE IF header.type = "file" /\ IsArchiveLogFile(sanitizedPath)
        THEN "segment"
        ELSE "skip"

\* extractFromTarGz: the 'end' listener the entry handler registers; "skip"
\* only calls next(), "segment" segments the collected content and calls next()
TarExtractListener(header) ==
    LET sanitizedPath == sanitizePath(header.name)
    IN  IF sanitizedPath = Rejected THEN "skip"
        ELSE IF header.type = "file" /\ IsArchiveLogFile(sanitizedPath)
        THEN "segment"
        ELSE "skip"

\* extractFromTarGz: the 'entry' handler
TarExtractOnEntry ==
    /\ arKind = "tar" /\ arOp = "extract" /\ arPc = "header"
    /\ arPos <= Len(arEntries)
    /\ arHandler' = TarExtractListener(arEntries[arPos])
    /\ arBuf' = <<>>
    /\ arStreamed' = 0
    /\ arPc' = "stream"
    /\ UNCHANGED <<arKind, arOp, arEntries, arPos, arLogs, arStats, arNext,
                   arResult, segVars, pathVars, tailVars>>

\* analyzeTarGz: the 'end' listener the entry handler registers
TarAnalyzeListener(header) ==
    LET sanitizedPath == sanitizePath(header.name)
    IN  IF sanitizedPath = Rejected THEN "skip"
        ELSE IF header.type = "file" /\ IsArchiveLogFile(sanitizedPath)
        THEN "sample"
        ELSE "skip"

\* analyzeTarGz: the counting the 'entry' handler does
TarAnalyzeCount(stats, header) ==
    LET sanitizedPath == sanitizePath(header.name)
        counted == [stats EXCEPT !.totalFiles = @ + 1]
    IN  IF sanitizedPath = Rejected \/ header.type # "file" THEN stats
        ELSE IF IsArchiveLogFile(sanitizedPath)
        THEN TarCounted(counted, sanitizedPath)
        ELSE counted

\* analyzeTarGz: the 'entry' handler
TarAnalyzeOnEntry ==
    /\ arKind = "tar" /\ arOp = "analyze" /\ arPc = "header"
    /\ arPos <= Len(arEntries)
    /\ arStats' = TarAnalyzeCount(arStats, arEntries[arPos])
    /\ arHandler' = TarAnalyzeListener(arEntries[arPos])
    /\ arBuf' = <<>>
    /\ arStreamed' = 0
    /\ arPc' = "stream"
    /\ UNCHANGED <<arKind, arOp, arEntries, arPos, arLogs, arNext, arResult,
                   segVars, pathVars, tailVars>>

\* the stream delivers a chunk: the 'data' listener, where one is registered,
\* appends it to content.  The stream flows only once the handler has called
\* resume() or attached a 'data' listener, which every branch that registers
\* an 'end' listener does.
TarOnData ==
    /\ arKind = "tar" /\ arPc = "stream"
    /\ arHandler # "none"
    /\ arStreamed < Len(arEntries[arPos].text)
    /\ arStreamed' = arStreamed + 1
    /\ arBuf' = IF arHandler \in {"segment", "sample"}
                THEN Append(arBuf, arEntries[arPos].text[arStreamed + 1])
                ELSE arBuf
    /\ UNCHANGED <<arKind, arOp, arEntries, arPos, arPc, arLogs, arStats, arNext,
                   arHandler, arResult, segVars, pathVars, tailVars>>

\* the stream ends: the registered 'end' listener runs; tar-stream reads the
\* next header only once next() has been called
TarOnEnd ==
    /\ arKind = "tar" /\ arPc = "stream"
    /\ arStreamed = Len(arEntries[arPos].text)
    /\ arHandler # "none"
    /\ arLogs' = IF arHandler = "segment"
                 THEN arLogs \o processLogContent(
                                   arBuf, sanitizePath(arEntries[arPos].name),
                                   dateRange, tz)
                 ELSE arLogs
    /\ arStats' = IF arHandler = "sample" THEN TarSampled(arStats, arBuf)
                  ELSE arStats
    /\ arNext' = [arNext EXCEPT ![arPos] = @ + 1]
    /\ arPos' = arPos + 1
    /\ arPc' = "header"
    /\ arHandler' = "none"
    /\ UNCHANGED <<arKind, arOp, arEntries, arStreamed, arBuf, arResult,
                   segVars, pathVars, tailVars>>

\* the 'finish' listener: resolve(logs), resolve(analysis)
TarOnFinish ==
    /\ arKind = "tar" /\ arPc = "header"
    /\ arPos > Len(arEntries)
    /\ arPc' = "done"
    /\ arResult' = IF arOp = "extract" THEN arLogs ELSE Analysis(arStats)
    /\ UNCHANGED <<arKind, arOp, arEntries, arPos, arLogs, arStats, arNext,
                   arHandler, arStreamed, arBuf, segVars, pathVars, tailVars>>

ArNext ==
    \/ ZipExtractEntry
    \/ ZipExtractReturn
    \/ ZipAnalyzeEntry
    \/ ZipAnalyzeReturn
    \/ TarExtractOnEntry
    \/ TarAnalyzeOnEntry
    \/ TarOnData
    \/ TarOnEnd
    \/ TarOnFinish

\* the readers alone; the promise's executor and the event loop run every
\* pending callback, so a reader that can take a step eventually takes one
ArSpec == ArInit /\ [][ArNext]_vars /\ WF_vars(ArNext)

\* the sanitizer on arbitrary short paths, and the readers that call it
SanitizeSpec == (PathInit \/ ArInit) /\ [][PathNext \/ ArNext]_vars

-----------------------------------------------------------------------------
(* Properties of the sanitizer and the archive readers.                    *)

\* the path contains ".." or "~" somewhere
Tainted(path) == Includes(path, "..") \/ Includes(path, "~")

NotTaintedEntry(entry) == ~Tainted(entry.name)

\* the entry is a file with an accepted path that qualifies as a log file
AcceptedLogEntry(entry) ==
    /\ sanitizePath(entry.name) # Rejected
    /\ entry.type = "file"
    /\ IsArchiveLogFile(sanitizePath(entry.name))

\* the records of the accepted qualifying entries, in archive order
RECURSIVE RecordsOf(_)
RecordsOf(entries) ==
    IF entries = <<>> THEN <<>>
    ELSE (IF AcceptedLogEntry(Head(entries))
          THEN processLogContent(Head(entries).text,
                                 sanitizePath(Head(entries).name), NoRange, 0)
          ELSE <<>>) \o RecordsOf(Tail(entries))

\* the counters of an analysis of the entries, ZIP and tar.gz
RECURSIVE ZipStatsOf(_, _)
ZipStatsOf(stats, entries) ==
    IF entries = <<>> THEN stats
    ELSE ZipStatsOf(ZipAnalyzeStep(stats, Head(entries)), Tail(entries))

RECURSIVE TarStatsOf(_, _)
TarStatsOf(stats, entries) ==
    IF entries = <<>> THEN stats
    ELSE LET counted == TarAnalyzeCount(stats, Head(entries))
         IN  TarStatsOf(IF AcceptedLogEntry(Head(entries))
                        THEN TarSampled(counted, Head(entries).text)
                        ELSE counted,
                        Tail(entries))

\* what the operation returns for the given entries
ResultOf(kind, op, entries) ==
    IF op = "extract" THEN RecordsOf(entries)
    ELSE IF kind = "zip" THEN Analysis(ZipStatsOf(NoStats, entries))
    ELSE Analysis(TarStatsOf(NoStats, entries))

\* C7: sanitizePath returns null for every path that contains ".." or "~"
\* anywhere, and nothing in the result of an extraction or analysis derives
\* from such a path: the result is the one the archive without those entries
\* gives.
C7_TaintedPathRejected ==
    /\ (cleanPath \notin {"unset", "idle"} /\ Tainted(rawPath)) => cleanPath = Rejected
    /\ arPc = "done" =>
          arResult = ResultOf(arKind, arOp, SelectSeq(arEntries, NotTaintedEntry))

C7_Witness ==
    \/ rawPath = "a/..a" /\ cleanPath = Rejected
    \/ /\ arPc = "done"
       /\ \E i \in 1..Len(arEntries) : Tainted(arEntries[i].name)
       /\ \E i \in 1..Len(arEntries) : AcceptedLogEntry(arEntries[i])

\* the entries handled so far that the sanitizer accepts as files, and those
\* among them that qualify as log files
HandledEntries ==
    {i \in 1..Len(arEntries) : i < arPos \/ (i = arPos /\ arPc = "stream")}

AcceptedFiles ==
    {i \in HandledEntries :
        sanitizePath(arEntries[i].name) # Rejected /\ arEntries[i].type = "file"}

AcceptedLogFiles == {i \in HandledEntries : AcceptedLogEntry(arEntries[i])}

\* C8: an entry whose path the sanitizer rejects is skipped by ZIP and tar.gz
\* extraction and analysis: every record comes from an accepted qualifying
\* entry, totalFiles and logFiles count accepted entries only, and the folder
\* list holds the folders of accepted qualifying entries only.
C8_RejectedEntrySkipped ==
    arKind \in {"zip", "tar"} =>
        /\ \A r \in 1..Len(arLogs) :
              \E i \in AcceptedLogFiles :
                  arLogs[r].file = sanitizePath(arEntries[i].name)
        /\ arStats.totalFiles = (IF arOp = "analyze" THEN Cardinality(AcceptedFiles) ELSE 0)
        /\ arStats.logFiles = (IF arOp = "analyze" THEN Cardinality(AcceptedLogFiles) ELSE 0)
        /\ arStats.folders =
              (IF arOp = "analyze"
               THEN {normalizeFolderStructure(Dirname(sanitizePath(arEntries[i].name))) :
                        i \in AcceptedLogFiles}
               ELSE {})

PasswdEntry == [name |-> "../../etc/passwd", type |-> "file", text |-> <<WarnLine, NL>>]
AppLogEntry == [name |-> "svc1/app.log", type |-> "file", text |-> <<ErrorLine, NL, StackLine>>]
SysTxtEntry == [name |-> "/var/log/sys.txt", type |-> "file", text |-> <<WarnLine, NL>>]

C8_Witness ==
    /\ arPc = "done"
    /\ arOp = "analyze"
    /\ arEntries = <<PasswdEntry, AppLogEntry>>
    /\ arResult.totalFiles = 1
    /\ arResult.folders = {"svc1"}

\* some step of the reader can be taken: the ZIP loop always can, the tar.gz
\* reader can while a header or the end of the archive is due, or while the
\* entry's stream flows; an entry whose handler returned without an 'end'
\* listener is never followed by another
ArCanStep ==
    \/ arKind = "zip" /\ arPc = "loop"
    \/ arKind = "tar" /\ arPc = "header"
    \/ arKind = "tar" /\ arPc = "stream" /\ arHandler # "none"

\* how far the run has got; at most 8 * (Len(arEntries) + 1) + 1.  A run
\* that can always step and whose every step increases ArProgress finishes
\* under the fairness of ArSpec; this is how termination is checked, since
\* evaluating ENABLED ArNext re-evaluates the segmenter for every state.
ArProgress ==
    8 * arPos + (IF arPc = "stream" THEN 1 + arStreamed
                 ELSE IF arPc = "done" THEN 1 ELSE 0)

\* C9: a rejected or non-qualifying entry neither aborts nor stalls an
\* extraction.  A run that has not finished can always take a step, every
\* step takes it further towards the end (so it finishes), the tar.gz reader
\* has called next() exactly once for every entry whose stream has ended and
\* never for another, and an extraction resolves with the records of all
\* accepted qualifying entries, in order.
C9_SkippedEntryNeverStalls ==
    /\ [](arPc # "done" => ArCanStep)
    /\ [][ArProgress' > ArProgress]_vars
    /\ [](\A i \in 1..Len(arEntries) :
            arNext[i] = (IF arKind = "tar" /\ i < arPos THEN 1 ELSE 0))
    /\ []((arPc = "done" /\ arOp = "extract") => arResult = RecordsOf(arEntries))

C9_Witness ==
    /\ arKind = "tar" /\ arOp = "extract" /\ arPc = "done"
    /\ arEntries = <<AppLogEntry, PasswdEntry, SysTxtEntry>>
    /\ arNext = <<1, 1, 1>>
    /\ Len(arResult) = 2
    /\ arResult[2].file = "var/log/sys.txt"

-----------------------------------------------------------------------------
(* The tail session.  files is the directory tree under the logs path as   *)
(* other processes write it: the chunked content of every path, or Absent. *)
(* The session's state is that of the closure of start(): the two          *)
(* watermark maps, isActive, the interval timer and the stream's           *)
(* controller.  aborted says the request's signal has fired, after which   *)
(* the controller is closed.  reads counts the scans of the directory      *)
(* tree, the one made by start() included.  hist remembers, for every      *)
(* path, what was written since the last scan and what the last tick saw.  *)

Absent == "<absent>"

\* the folders parameter of the request, split at ','
TailFolders == <<"svc1", "../etc">>

\* the names readdirSync lists in a folder
TailNames == <<"app.log", "new.log", "notes.md", "passwd.log">>

TailPaths == {"svc1/app.log", "svc1/new.log", "svc1/notes.md", "../etc/passwd.log"}

AppLog == "svc1/app.log"
NewLog == "svc1/new.log"

\* the lines other processes append
TailLines == {WarnLine, StackLine}

\* Map.prototype.set
MapSet(map, key, value) ==
    [k \in (DOMAIN map) \cup {key} |-> IF k = key THEN value ELSE map[k]]

\* Map.prototype.get(key) || 0
MapGetOr0(map, key) == IF key \in DOMAIN map THEN map[key] ELSE 0

\* findLogFilesRecursive, on a folder without subfolders
FindLogFiles(fs, folder) ==
    SelectSeq(TailNames,
              LAMBDA item : /\ (folder \o "/" \o item) \in DOMAIN fs
                            /\ fs[folder \o "/" \o item] # Absent
                            /\ IsLocalLogFile(item))

\* the FileState entries of one folder
FolderStates(fs, folder) ==
    LET logFiles == FindLogFiles(fs, folder)
    IN  [i \in 1..Len(logFiles) |->
            [path         |-> folder \o "/" \o logFiles[i],
             folder       |-> folder,
             relativePath |-> logFiles[i],
             size         |-> TextLength(fs[folder \o "/" \o logFiles[i]])]]

\* getFileStates
RECURSIVE getFileStates(_, _)
getFileStates(fs, folders) ==
    IF folders = <<>> THEN <<>>
    ELSE LET folderName == Head(folders)
         IN  (IF \/ Includes(folderName, "..")
                 \/ Includes(folderName, "/")
                 \/ Includes(folderName, "\\")
              THEN <<>>
              ELSE FolderStates(fs, folderName))
             \o getFileStates(fs, Tail(folders))

\* the 'log' messages enqueued for the records
RECURSIVE LogMessages(_)
LogMessages(logs) ==
    IF logs = <<>> THEN <<>>
    ELSE <<[type |-> "log", log |-> Head(logs)]>> \o LogMessages(Tail(logs))

\* start(): the initial watermarks of the files found
RECURSIVE InitialMaps(_, _, _)
InitialMaps(st, fileStates, fs) ==
    IF fileStates = <<>> THEN st
    ELSE LET file == Head(fileStates)
         IN  InitialMaps(
                 [sizeMap |-> MapSet(st.sizeMap, file.path, file.size),
                  lineMap |-> MapSet(st.lineMap, file.path,
                                     Len(SplitLines(fs[file.path])))],
                 Tail(fileStates), fs)

\* mutant: the grown-file branch leaves both watermarks where they were
PollFileKeepsWatermarks(st, file, fs, closed, zone) ==
    LET previousSize      == MapGetOr0(st.sizeMap, file.path)
        previousLineCount == MapGetOr0(st.lineMap, file.path)
        lines    == SplitLines(fs[file.path])
        newLines == SubSeq(lines, previousLineCount + 1, Len(lines))
        newLogs  == processNewContent(Join(newLines, NL), file.folder,
                                      file.relativePath, previousLineCount, zone)
    IN  IF file.size > previousSize
        THEN IF Len(newLines) > 0 /\ ~closed
             THEN [st EXCEPT !.out = @ \o LogMessages(newLogs)]
             ELSE st
        ELSE IF file.path \notin DOMAIN st.sizeMap
        THEN [st EXCEPT
                !.sizeMap = MapSet(@, file.path, file.size),
                !.lineMap = MapSet(@, file.path, Len(lines))]
        ELSE st

\* mutant: a file whose size has changed in either direction is re-examined
PollFileFollowsSize(st, file, fs, closed, zone) ==
    LET previousSize      == MapGetOr0(st.sizeMap, file.path)
        previousLineCount == MapGetOr0(st.lineMap, file.path)
        lines    == SplitLines(fs[file.path])
        newLines == SubSeq(lines, previousLineCount + 1, Len(lines))
        newLogs  == processNewContent(Join(newLines, NL), file.folder,
                                      file.relativePath, previousLineCount, zone)
    IN  IF file.size # previousSize
        THEN IF Len(newLines) > 0
             THEN IF closed /\ Len(newLogs) > 0 THEN st
                  ELSE [st EXCEPT
                          !.out     = @ \o LogMessages(newLogs),
                          !.lineMap = MapSet(@, file.path, Len(lines)),
                          !.sizeMap = MapSet(@, file.path, file.size)]
             ELSE [st EXCEPT !.sizeMap = MapSet(@, file.path, file.size)]
        ELSE IF file.path \notin DOMAIN st.sizeMap
        THEN [st EXCEPT
                !.sizeMap = MapSet(@, file.path, file.size),
                !.lineMap = MapSet(@, file.path, Len(lines))]
        ELSE st

\* the body of the loop over currentFileStates in the interval callback;
\* enqueue on a closed controller throws, which the inner catch swallows
PollFile(st, file, fs, closed, zone) ==
    LET previousSize      == MapGetOr0(st.sizeMap, file.path)
        previousLineCount == MapGetOr0(st.lineMap, file.path)
        lines    == SplitLines(fs[file.path])
        newLines == SubSeq(lines, previousLineCount + 1, Len(lines))
        newLogs  == processNewContent(Join(newLines, NL), file.folder,
                                      file.relativePath, previousLineCount, zone)
    IN  IF file.size > previousSize
        THEN IF Len(newLines) > 0
             THEN IF closed /\ Len(newLogs) > 0 THEN st
                  ELSE [st EXCEPT
                          !.out     = @ \o LogMessages(newLogs),
                          !.lineMap = MapSet(@, file.path, Len(lines)),
                          !.sizeMap = MapSet(@, file.path, file.size)]
             ELSE [st EXCEPT !.sizeMap = MapSet(@, file.path, file.size)]
        ELSE IF file.path \notin DOMAIN st.sizeMap
        THEN [st EXCEPT
                !.sizeMap = MapSet(@, file.path, file.size),
                !.lineMap = MapSet(@, file.path, Len(lines))]
        ELSE st

\* the loop over currentFileStates
RECURSIVE PollFiles(_, _, _, _, _)
PollFiles(st, fileStates, fs, closed, zone) ==
    IF fileStates = <<>> THEN st
    ELSE PollFiles(PollFile(st, Head(fileStates), fs, closed, zone),
                   Tail(fileStates), fs, closed, zone)

\* the lines a content holds: those of split('\n'), less the empty one that
\* follows a final newline (and that of the empty content)
PhysLines(chunks) ==
    IF chunks = <<>> \/ chunks[Len(chunks)] = NL
    THEN Len(SplitLines(chunks)) - 1
    ELSE Len(SplitLines(chunks))

\* the number of line texts written into a content
RECURSIVE TextChunks(_)
TextChunks(chunks) ==
    IF chunks = <<>> THEN 0
    ELSE (IF Head(chunks) = NL THEN 0 ELSE 1) + TextChunks(Tail(chunks))

\* nothing written since the last scan
NoWrites == [appended |-> 0, plain |-> TRUE, wrote |-> FALSE]

\* nothing seen by a tick yet
NoTick == [watched |-> FALSE, appended |-> 0, plain |-> TRUE, wrote |-> FALSE]

TailInitialContents == {<<>>, <<WarnLine>>, <<WarnLine, NL>>}

TailCreatedContents == {<<>>, <<WarnLine, NL>>}

\* the session as start() leaves it: watermarks taken, 'connected' enqueued,
\* the interval set and the abort listener registered
TailInit ==
    /\ \E c \in TailInitialContents :
          files = [p \in TailPaths |->
                      IF p = AppLog THEN c
                      ELSE IF p = NewLog THEN Absent
                      ELSE <<WarnLine, NL>>]
    /\ LET maps == InitialMaps([sizeMap |-> <<>>, lineMap |-> <<>>],
                               getFileStates(files, TailFolders), files)
       IN  /\ fileSizeMap = maps.sizeMap
           /\ fileLineMap = maps.lineMap
           /\ hist = [p \in TailPaths |->
                        [first   |-> IF p \in DOMAIN maps.sizeMap
                                     THEN PhysLines(files[p]) ELSE -1,
                         pending |-> NoWrites,
                         tick    |-> NoTick]]
    /\ stream = <<[type |-> "connected"]>>
    /\ isActive = TRUE
    /\ timerOn = TRUE
    /\ aborted = FALSE
    /\ reads = 1
    /\ SegIdle /\ PathIdle /\ ArIdle

\* the line is an anchor of the tail pattern with a parseable date
IsDatedAnchor(line) ==
    MatchTail(line).matched /\ isValidDate(DateParse(MatchTail(line).g1, 0))

\* another process appends a line to a file, either terminating it with a
\* newline or starting it with one
TailAppend ==
    \E p \in {AppLog}, line \in TailLines, style \in {"terminated", "leading"} :
        /\ files[p] # Absent
        /\ TextChunks(files[p]) < MaxFileLines
        /\ files' = [files EXCEPT
                       ![p] = @ \o (IF style = "terminated" THEN <<line, NL>>
                                    ELSE <<NL, line>>)]
        /\ LET whole == \/ files[p] = <<>>
                        \/ files[p][Len(files[p])] = NL
                        \/ style = "leading"
           IN  hist' = [hist EXCEPT
                          ![p].pending =
                              [appended |-> @.appended + 1,
                               plain    |-> @.plain /\ whole /\ IsDatedAnchor(line),
                               wrote    |-> TRUE]]
        /\ UNCHANGED <<fileSizeMap, fileLineMap, stream, isActive, timerOn,
                       aborted, reads, segVars, pathVars, arVars>>

\* another process creates a file
TailCreate ==
    \E c \in TailCreatedContents :
        /\ files[NewLog] = Absent
        /\ files' = [files EXCEPT ![NewLog] = c]
        /\ hist' = [hist EXCEPT
                      ![NewLog].pending =
                          [appended |-> 0, plain |-> FALSE, wrote |-> TRUE]]
        /\ UNCHANGED <<fileSizeMap, fileLineMap, stream, isActive, timerOn,
                       aborted, reads, segVars, pathVars, arVars>>

\* the interval callback
Poll ==
    /\ timerOn
    /\ reads <= MaxPolls
    /\ IF ~isActive
       THEN /\ timerOn' = FALSE
            /\ UNCHANGED <<fileSizeMap, fileLineMap, stream, reads, hist>>
       ELSE LET currentFileStates == getFileStates(files, TailFolders)
                polled == PollFiles([sizeMap |-> fileSizeMap,
                                     lineMap |-> fileLineMap,
                                     out     |-> <<>>],
                                    currentFileStates, files, aborted, tz)
            IN  /\ fileSizeMap' = polled.sizeMap
                /\ fileLineMap' = polled.lineMap
                /\ stream' = IF aborted THEN stream
                             ELSE stream \o polled.out \o <<[type |-> "heartbeat"]>>
                /\ reads' = reads + 1
                /\ hist' = [p \in TailPaths |->
                              [first   |->
                                  IF p \in DOMAIN polled.sizeMap /\ p \notin DOMAIN fileSizeMap
                                  THEN PhysLines(files[p])
                                  ELSE hist[p].first,
                               pending |-> NoWrites,
                               tick    |->
                                  [watched  |-> p \in DOMAIN fileSizeMap,
                                   appended |-> hist[p].pending.appended,
                                   plain    |-> hist[p].pending.plain,
                                   wrote    |-> hist[p].pending.wrote]]]
                /\ UNCHANGED timerOn
    /\ UNCHANGED <<files, isActive, aborted, segVars, pathVars, arVars>>

\* mutant: the listener only closes the controller
AbortOnlyCloses ==
    /\ ~aborted
    /\ aborted' = TRUE
    /\ UNCHANGED <<isActive, timerOn>>
    /\ UNCHANGED <<files, fileSizeMap, fileLineMap, stream, reads, hist,
                   segVars, pathVars, arVars>>

\* the request's signal fires and the 'abort' listener runs
Abort ==
    /\ ~aborted
    /\ aborted' = TRUE
    /\ isActive' = FALSE
    /\ timerOn' = FALSE
    /\ UNCHANGED <<files, fileSizeMap, fileLineMap, stream, reads, hist,
                   segVars, pathVars, arVars>>

TailNext == TailAppend \/ TailCreate \/ Poll \/ Abort

TailSpec == TailInit /\ [][TailNext]_vars

-----------------------------------------------------------------------------
(* Properties of the tail session (checked under TailSpec).                *)

\* the number of ticks that got to their heartbeat
Heartbeats == Cardinality({i \in 1..Len(stream) : stream[i].type = "heartbeat"})

\* the path of the file a record was read from
PathOfLog(log) == log.folder \o "/" \o log.file

\* the positions of the 'log' messages of a path
LogPositions(p) ==
    {i \in 1..Len(stream) : stream[i].type = "log" /\ PathOfLog(stream[i].log) = p}

\* the position of the message that ended the tick before the last one:
\* a heartbeat, or 'connected'
LastBoundary ==
    CHOOSE i \in 1..(Len(stream) - 1) :
        /\ stream[i].type # "log"
        /\ \A j \in (i + 1)..(Len(stream) - 1) : stream[j].type = "log"

\* the positions of the records the last tick emitted for a path
LastTickPositions(p) ==
    IF stream[Len(stream)].type # "heartbeat" THEN {}
    ELSE {i \in LogPositions(p) : i > LastBoundary}

\* the number of lines in a record's content
RecordLines(log) == Len(SplitStr(log.content, NL))

\* C3: N anchor-led lines with parseable dates appended to a watched file
\* between two poll ticks make the next tick emit exactly N records, one per
\* appended line, with strictly increasing lineNumber, whatever the file held
\* before.
C3_AppendedLinesEmitted ==
    \A p \in TailPaths :
        LET t == hist[p].tick
            emitted == LastTickPositions(p)
        IN  (Heartbeats >= 2 /\ t.watched /\ t.plain /\ t.appended > 0) =>
                /\ Cardinality(emitted) = t.appended
                /\ \A i, j \in emitted :
                      i < j => stream[i].log.lineNumber < stream[j].log.lineNumber

\* C4: nothing of the content a file had when the session first observed it,
\* at start or on a later tick, is ever emitted.
C4_NoBackfill ==
    \A i \in 1..Len(stream) :
        stream[i].type = "log" =>
            stream[i].log.lineNumber > hist[PathOfLog(stream[i].log)].first

\* C5: a tick during which a file has not been written since the tick before
\* emits no record for it, and no line of a file is part of two emitted
\* records.
C5_NothingEmittedTwice ==
    /\ \A p \in TailPaths :
          (Heartbeats >= 1 /\ ~hist[p].tick.wrote) => LastTickPositions(p) = {}
    /\ \A p \in TailPaths :
          \A i, j \in LogPositions(p) :
              i < j => stream[i].log.lineNumber + RecordLines(stream[i].log) - 1
                          < stream[j].log.lineNumber

C5_Witness ==
    /\ Heartbeats >= 2
    /\ ~hist[AppLog].tick.wrote
    /\ LogPositions(AppLog) # {}
    /\ LastTickPositions(AppLog) = {}

\* C6: once the abort signal has fired, no step of the session scans or
\* reads a file or enqueues a message.
C6_NothingAfterAbort ==
    [][aborted => /\ reads' = reads
                  /\ stream' = stream
                  /\ fileSizeMap' = fileSizeMap
                  /\ fileLineMap' = fileLineMap]_vars

C6_Witness ==
    /\ aborted
    /\ Heartbeats >= 1
    /\ reads <= MaxPolls
    /\ hist[AppLog].pending.wrote

-----------------------------------------------------------------------------
(* Date ranges: one anchor line stamped around the boundaries of a day,    *)
(* segmented under a range that starts or ends on that day, on hosts in    *)
(* three time zones.                                                       *)

RangeDay   == "2024-01-15"
DayBefore  == "2024-01-14"
DayAfter   == "2024-01-16"

RangeDays  == {DayBefore, RangeDay, DayAfter}
RangeTimes == {"00:00:00", "00:00:01", "12:30:00", "23:59:58", "23:59:59"}

\* offsets from UTC in seconds: New York (winter), UTC, Kolkata
RangeZones == {0 - 18000, 0, 19800}

RangeLine(day, time) == day \o " " \o time \o " [Error] boundary"

RangeInit ==
    /\ \E day \in RangeDays, time \in RangeTimes :
          content \in {<<RangeLine(day, time)>>,
                       <<RangeLine(day, time), NL, StackLine>>}
    /\ segMode = "none"
    /\ segLogs = <<>>
    /\ dateRange \in [startDate : {"", RangeDay}, endDate : {"", RangeDay}]
    /\ tz \in RangeZones
    /\ PathIdle /\ ArIdle /\ TailIdle

RangeNext == SegArchive \/ SegLocal

RangeSpec == RangeInit /\ [][RangeNext]_vars

\* the day and the time of day the anchor line is stamped with
StampDay  == SubSeq(content[1], 1, 10)
StampTime == SubSeq(content[1], 12, 19)

\* C11: with endDate = D (and no start date), a record stamped D 00:00:00 is
\* emitted, every record stamped up to and including D 23:59:59 is emitted,
\* and a record stamped one second later, or later still, is not.
C11_EndOfDayInclusive ==
    (segMode \in {"archive", "local"} /\ dateRange = [startDate |-> "", endDate |-> RangeDay])
        => (Len(segLogs) = 1 <=> StampDay \in {DayBefore, RangeDay})

C11_Witness ==
    /\ segMode \in {"archive", "local"}
    /\ dateRange = [startDate |-> "", endDate |-> RangeDay]
    /\ tz # 0
    /\ StampDay = RangeDay /\ StampTime = "23:59:59"
    /\ Len(segLogs) = 1

\* C18: startDate = D is local midnight of D: in every time zone a record
\* stamped D 00:00:00 or later passes the start check and a record stamped
\* before D 00:00:00 does not.
C18_StartIsLocalMidnight ==
    (segMode \in {"archive", "local"} /\ dateRange = [startDate |-> RangeDay, endDate |-> ""])
        => (Len(segLogs) = 1 <=> StampDay \in {RangeDay, DayAfter})

-----------------------------------------------------------------------------
(* Folder normalization of paths made of a few kinds of segment.           *)

\* segments that name a service, and segments the normalizer passes over:
\* noise words in any case, a date-stamped folder, '.', the empty segment
\* and a '__' folder
MeaningfulNames == {"serviceA", "api"}
PassedOverNames == {"log", "var", "Tmp", "2024-01-01", ".", "", "__MACOSX"}

NormSegments == MeaningfulNames \cup PassedOverNames

NormInputs ==
    {Join(segs, "/") : segs \in UNION {[1..n -> NormSegments] : n \in 1..MaxSegments}}

NormInit ==
    /\ rawPath \in NormInputs
    /\ cleanPath = "idle"
    /\ normFolder = "unset"
    /\ SegIdle /\ ArIdle /\ TailIdle

Normalize ==
    /\ normFolder = "unset"
    /\ normFolder' = normalizeFolderStructure(rawPath)
    /\ UNCHANGED <<rawPath, cleanPath, segVars, arVars, tailVars>>

NormNext == Normalize

NormSpec == NormInit /\ [][NormNext]_vars

\* the meaningful segments of the input, in order
MeaningfulOf(path) ==
    SelectSeq(SplitStr(path, "/"), LAMBDA seg : seg \in MeaningfulNames)

\* C12: when a path has a meaningful segment, the folder is made of its
\* meaningful segments alone (the first two, or the only one), so inserting
\* or removing segments that are passed over does not change it.
C12_OnlyMeaningfulSegmentsCount ==
    (normFolder \notin {"unset", "idle"} /\ Len(MeaningfulOf(rawPath)) >= 1) =>
        normFolder = (IF Len(MeaningfulOf(rawPath)) >= 2
                      THEN MeaningfulOf(rawPath)[1] \o "/" \o MeaningfulOf(rawPath)[2]
                      ELSE MeaningfulOf(rawPath)[1])

C12_Witness ==
    /\ rawPath = "var/serviceA/2024-01-01/log"
    /\ normFolder = "serviceA"

-----------------------------------------------------------------------------
(* Analysis of archives whose entries have distinct names, one of them a   *)
(* file longer than the sample.                                            *)

OldLine == "2023-11-30 08:00:00 [Warning] certificate expires"

\* a file of BigLines error lines
BigText == [i \in 1..(2 * BigLines - 1) |-> IF i % 2 = 1 THEN ErrorLine ELSE NL]

AnEntrySet ==
    {[name |-> "svc1/app.log",      type |-> "file", text |-> <<ErrorLine, NL, WarnLine>>],
     [name |-> "/var/log/sys.txt",  type |-> "file", text |-> <<WarnLine, NL>>],
     [name |-> "svc3/notes",        type |-> "file", text |-> <<OldLine>>],
     [name |-> "svc1/readme.md",    type |-> "file", text |-> <<WarnLine>>],
     [name |-> "svc2/logs/big.log", type |-> "file", text |-> BigText]}

AnArchives ==
    {a \in UNION {[1..n -> AnEntrySet] : n \in 1..MaxAnalyzed} : DistinctNames(a)}

AnInit ==
    /\ arKind \in {"zip", "tar"}
    /\ arOp = "analyze"
    /\ arEntries \in AnArchives
    /\ arPos = 1
    /\ arPc = IF arKind = "zip" THEN "loop" ELSE "header"
    /\ arLogs = <<>>
    /\ arStats = NoStats
    /\ arNext = [i \in 1..Len(arEntries) |-> 0]
    /\ arHandler = "none"
    /\ arStreamed = 0
    /\ arBuf = <<>>
    /\ arResult = "pending"
    /\ SegIdle /\ PathIdle /\ TailIdle

AnNext ==
    \/ ZipAnalyzeEntry
    \/ ZipAnalyzeReturn
    \/ TarAnalyzeOnEntry
    \/ TarOnData
    \/ TarOnEnd
    \/ TarOnFinish

AnalyzeSpec == AnInit /\ [][AnNext]_vars

\* the names of AnEntrySet that end in .log or .txt or have no extension
AnLogNames == {"svc1/app.log", "/var/log/sys.txt", "svc3/notes", "svc2/logs/big.log"}

AnLogEntries == {i \in 1..Len(arEntries) : arEntries[i].name \in AnLogNames}

\* C13: every analysis returned has logFiles <= totalFiles, counts the files
\* and the log files of the archive, and reports earliest and latest either
\* both or not at all, earliest not after latest.
C13_AnalysisWellFormed ==
    arPc = "done" =>
        /\ arResult.logFiles <= arResult.totalFiles
        /\ arResult.totalFiles = Len(arEntries)
        /\ arResult.logFiles = Cardinality(AnLogEntries)
        /\ (arResult.dateRange.earliest = "null") <=> (arResult.dateRange.latest = "null")
        /\ arResult.dateRange.earliest # "null" =>
              /\ isValidDate(DateParse(arResult.dateRange.earliest, 0))
              /\ isValidDate(DateParse(arResult.dateRange.latest, 0))
              /\ DateParse(arResult.dateRange.earliest, 0).t
                    <= DateParse(arResult.dateRange.latest, 0).t

C13_Witness ==
    /\ arPc = "done"
    /\ Len(arEntries) = 4
    /\ \E i \in 1..4 : arEntries[i].name = "svc1/readme.md"
    /\ arResult.totalFiles = 4
    /\ arResult.logFiles = 3
    /\ arResult.dateRange.earliest = "2023-11-30"
    /\ arResult.dateRange.latest = "2024-01-15"

-----------------------------------------------------------------------------
(* Extraction and analysis of the same archive.                            *)

\* the folders of the records in a sequence
FoldersOf(logs) == {logs[i].folder : i \in 1..Len(logs)}

\* C14: the folders analysis reports for an archive contain the folder of
\* every record extraction (with no date range) returns for that archive.
C14_AnalysisFoldersCoverRecords ==
    arPc = "done" =>
        IF arOp = "extract"
        THEN FoldersOf(arResult) \subseteq ResultOf(arKind, "analyze", arEntries).folders
        ELSE FoldersOf(ResultOf(arKind, "extract", arEntries)) \subseteq arResult.folders

C14_Witness ==
    /\ arPc = "done"
    /\ arOp = "extract"
    /\ FoldersOf(arResult) = {"svc1", "var/log"}
    /\ ResultOf(arKind, "analyze", arEntries).folders = {"svc1", "var/log"}

-----------------------------------------------------------------------------
(* The file-qualification test of each mode, applied to one file name.     *)

QualDirs  == {"", "svc1/", "var/log/"}
QualStems == {"app", "notes", "sys.1", "README"}
QualExts  == {".log", ".txt", "", ".md", ".LOG"}

QualNames == {d \o st \o e : d \in QualDirs, st \in QualStems, e \in QualExts}

QualInit ==
    /\ rawPath \in QualNames
    /\ cleanPath = "unset"
    /\ normFolder = "unset"
    /\ SegIdle /\ ArIdle /\ TailIdle

\* the archive readers test the sanitized entry path
QualifyArchive ==
    /\ normFolder = "unset"
    /\ normFolder' = "archive"
    /\ cleanPath' = LET sanitizedPath == sanitizePath(rawPath)
                    IN  IF sanitizedPath = Rejected THEN "skipped"
                        ELSE IF IsArchiveLogFile(sanitizedPath) THEN "log file"
                        ELSE "skipped"
    /\ UNCHANGED <<rawPath, segVars, arVars, tailVars>>

\* findLogFilesRecursive of the local extraction route tests the item name
QualifyLocal ==
    /\ normFolder = "unset"
    /\ normFolder' = "local"
    /\ cleanPath' = IF IsLocalLogFile(Basename(rawPath)) THEN "log file" ELSE "skipped"
    /\ UNCHANGED <<rawPath, segVars, arVars, tailVars>>

\* findLogFilesRecursive of the tail route tests the item name
QualifyTail ==
    /\ normFolder = "unset"
    /\ normFolder' = "tail"
    /\ cleanPath' = IF IsLocalLogFile(Basename(rawPath)) THEN "log file" ELSE "skipped"
    /\ UNCHANGED <<rawPath, segVars, arVars, tailVars>>

QualNext == QualifyArchive \/ QualifyLocal \/ QualifyTail

QualSpec == QualInit /\ [][QualNext]_vars

\* the name ends in .log, ends in .txt, or has no extension
QualifiesByName(name) ==
    \/ EndsWith(name, ".log")
    \/ EndsWith(name, ".txt")
    \/ ~Includes(Basename(name), ".")

\* C15: in every mode a file is treated as a log file exactly when its name
\* ends in .log, ends in .txt, or has no extension.
C15_SameQualificationEverywhere ==
    normFolder # "unset" => (cleanPath = "log file" <=> QualifiesByName(rawPath))

-----------------------------------------------------------------------------
(* extractLogsFromArchive and analyzeArchive: the choice of a reader by    *)
(* the uploaded file's name. The archive's bytes are the entries a reader  *)
(* decodes from them.                                                      *)

ArchiveFilenames ==
    {"logs.zip", "LOGS.ZIP", "logs.tar.gz", "logs.tgz", "LOGS.TGZ", "logs.rar",
     "logs.gz", "logs.tar", "logs", "logs.zip.txt", "logs.7Z", ".zip"}

\* mutant: every gzip file goes to the tar reader
ReaderForGzIsTar(filename) ==
    LET extension == ToLowerCase(Extname(filename))
    IN  IF extension = ".zip" THEN "zip"
        ELSE IF EndsWith(filename, ".gz") \/ EndsWith(filename, ".tgz") THEN "tar"
        ELSE "unsupported"

\* the branch extractLogsFromArchive and analyzeArchive take
ReaderFor(filename) ==
    LET extension == ToLowerCase(Extname(filename))
    IN  IF extension = ".zip" THEN "zip"
        ELSE IF EndsWith(filename, ".tar.gz") \/ EndsWith(filename, ".tgz") THEN "tar"
        ELSE "unsupported"

UnsupportedError(filename) ==
    "Unsupported file format: " \o ToLowerCase(Extname(filename))

ShortArchives == {a \in Archives : Len(a) <= 2}

DispatchInit ==
    /\ rawPath \in ArchiveFilenames
    /\ cleanPath = "idle"
    /\ normFolder = "idle"
    /\ arOp \in {"extract", "analyze"}
    /\ arEntries \in ShortArchives
    /\ DistinctNames(arEntries)
    /\ arKind = "unset"
    /\ arPc = "dispatch"
    /\ arPos = 0
    /\ arLogs = <<>>
    /\ arStats = <<>>
    /\ arNext = <<>>
    /\ arHandler = "none"
    /\ arStreamed = 0
    /\ arBuf = <<>>
    /\ arResult = "pending"
    /\ SegIdle /\ TailIdle

\* the call of the reader chosen for the file name, or the throw
Dispatch ==
    /\ arPc = "dispatch"
    /\ arKind' = ReaderFor(rawPath)
    /\ IF ReaderFor(rawPath) = "unsupported"
       THEN /\ arPc' = "error"
            /\ arResult' = UnsupportedError(rawPath)
            /\ UNCHANGED <<arPos, arStats, arNext>>
       ELSE /\ arPc' = IF ReaderFor(rawPath) = "zip" THEN "loop" ELSE "header"
            /\ arPos' = 1
            /\ arStats' = NoStats
            /\ arNext' = [i \in 1..Len(arEntries) |-> 0]
            /\ UNCHANGED arResult
    /\ UNCHANGED <<arOp, arEntries, arLogs, arHandler, arStreamed, arBuf,
                   segVars, pathVars, tailVars>>

extractLogsFromArchive == arOp = "extract" /\ Dispatch

analyzeArchive == arOp = "analyze" /\ Dispatch

DispatchNext == extractLogsFromArchive \/ analyzeArchive \/ ArNext

DispatchSpec == DispatchInit /\ [][DispatchNext]_vars

\* the name ends, in any letter case, in none of .zip, .tar.gz, .tgz
UnsupportedName(filename) ==
    LET lower == ToLowerCase(filename)
    IN  ~(EndsWith(lower, ".zip") \/ EndsWith(lower, ".tar.gz") \/ EndsWith(lower, ".tgz"))

\* what follows the last dot of the name, in lower case
NamedExtension(filename) ==
    LET i == LastIndexOf(filename, ".")
    IN  IF i = 0 THEN "" ELSE ToLowerCase(SubSeq(filename, i, Len(filename)))

\* no reader has touched its state
NoReaderInvoked ==
    /\ arPos = 0 /\ arLogs = <<>> /\ arStats = <<>> /\ arNext = <<>>
    /\ arHandler = "none" /\ arStreamed = 0 /\ arBuf = <<>>

\* C16: a file name with an extension other than .zip, .tar.gz or .tgz is
\* rejected with "Unsupported file format" naming the extension, and no
\* reader is ever invoked on the archive.
C16_UnsupportedRejectedBeforeDecoding ==
    (UnsupportedName(rawPath) /\ arPc \notin {"dispatch", "idle"}) =>
        /\ arPc = "error"
        /\ arResult = "Unsupported file format: " \o NamedExtension(rawPath)
        /\ NoReaderInvoked

C16_Witness ==
    /\ rawPath = "logs.rar"
    /\ arPc = "error"
    /\ arResult = "Unsupported file format: .rar"
    /\ NoReaderInvoked

-----------------------------------------------------------------------------
(* Two calls of extractLogsFromArchive with the same arguments on the same *)
(* host. segLogs holds what the first call returned, segMode which call    *)
(* is running.                                                             *)

RerunRanges ==
    {NoRange,
     [startDate |-> RangeDay, endDate |-> RangeDay],
     [startDate |-> DayAfter, endDate |-> ""]}

RerunInit ==
    /\ arKind \in {"zip", "tar"}
    /\ arOp = "extract"
    /\ arEntries \in ShortArchives
    /\ arKind = "zip" => DistinctNames(arEntries)
    /\ arPos = 1
    /\ arPc = IF arKind = "zip" THEN "loop" ELSE "header"
    /\ arLogs = <<>>
    /\ arStats = NoStats
    /\ arNext = [i \in 1..Len(arEntries) |-> 0]
    /\ arHandler = "none"
    /\ arStreamed = 0
    /\ arBuf = <<>>
    /\ arResult = "pending"
    /\ content = <<>>
    /\ segMode = "first call"
    /\ segLogs = <<>>
    /\ dateRange \in RerunRanges
    /\ tz \in {0, 19800}
    /\ PathIdle /\ TailIdle

\* mutant: the records of the first call are still in logs
ExtractAgainKeepsLogs ==
    /\ segMode = "first call" /\ arPc = "done"
    /\ segMode' = "second call"
    /\ segLogs' = arResult
    /\ arPos' = 1
    /\ arPc' = IF arKind = "zip" THEN "loop" ELSE "header"
    /\ arLogs' = arLogs
    /\ arNext' = [i \in 1..Len(arEntries) |-> 0]
    /\ arHandler' = "none"
    /\ arStreamed' = 0
    /\ arBuf' = <<>>
    /\ arResult' = "pending"
    /\ UNCHANGED <<arKind, arOp, arEntries, arStats, content, dateRange, tz,
                   pathVars, tailVars>>

\* the second call: a new reader with an empty logs array
ExtractAgain ==
    /\ segMode = "first call" /\ arPc = "done"
    /\ segMode' = "second call"
    /\ segLogs' = arResult
    /\ arPos' = 1
    /\ arPc' = IF arKind = "zip" THEN "loop" ELSE "header"
    /\ arLogs' = <<>>
    /\ arNext' = [i \in 1..Len(arEntries) |-> 0]
    /\ arHandler' = "none"
    /\ arStreamed' = 0
    /\ arBuf' = <<>>
    /\ arResult' = "pending"
    /\ UNCHANGED <<arKind, arOp, arEntries, arStats, content, dateRange, tz,
                   pathVars, tailVars>>

RerunNext ==
    \/ ZipExtractEntry
    \/ ZipExtractReturn
    \/ TarExtractOnEntry
    \/ TarOnData
    \/ TarOnEnd
    \/ TarOnFinish
    \/ ExtractAgain

RerunSpec == RerunInit /\ [][RerunNext]_vars

-----------------------------------------------------------------------------
(* The estimate of an analysis against the sum of per-file estimates.      *)

\* floor(sampleMatches * totalLines / sampleLines) of one file
FileEstimate(text) ==
    LET lines == SampleOf(text)
    IN  (SampleMatches(lines) * Len(SplitLines(text))) \div Len(lines)

\* the sum of the estimates of the qualifying files among the first n entries
RECURSIVE SumOfEstimates(_, _)
SumOfEstimates(entries, n) ==
    IF n = 0 THEN 0
    ELSE SumOfEstimates(entries, n - 1)
            + (IF entries[n].name \in AnLogNames THEN FileEstimate(entries[n].text)
               ELSE 0)

\* C19: estimatedLogEntries is the sum over the qualifying files of
\* floor(sampleMatches * totalLines / sampleLines), whatever the files' order,
\* for ZIP and for tar.gz archives.
C19_EstimateIsSumOfFileEstimates ==
    arPc = "done" =>
        arResult.estimatedLogEntries = SumOfEstimates(arEntries, Len(arEntries))

-----------------------------------------------------------------------------
(* Folder-name validation of the tail route and the local extraction       *)
(* route. rawPath is the folders parameter of the request; every requested *)
(* name resolves to a directory holding one log file.                      *)

FolderNames == {"svc1", "svc2", "svc1~", "~backup", "../etc", "..", "a/b", "a\\b"}

FolderRequests ==
    {<<n>> : n \in FolderNames} \cup {<<n, m>> : n, m \in FolderNames}

FolderFs == [p \in {n \o "/app.log" : n \in FolderNames} |-> <<ErrorLine, NL>>]

FolderInit ==
    /\ rawPath \in {Join(req, ",") : req \in FolderRequests}
    /\ cleanPath = "idle"
    /\ normFolder = "unset"
    /\ files = FolderFs
    /\ fileSizeMap = <<>>
    /\ fileLineMap = <<>>
    /\ stream = <<>>
    /\ isActive = FALSE
    /\ timerOn = FALSE
    /\ aborted = FALSE
    /\ reads = 0
    /\ hist = <<>>
    /\ content = <<>>
    /\ segMode = "idle"
    /\ segLogs = <<>>
    /\ dateRange = NoRange
    /\ tz = 0
    /\ ArIdle

\* the tail route: start() records the files getFileStates returns
TailValidate ==
    /\ normFolder = "unset"
    /\ normFolder' = "tail"
    /\ LET maps == InitialMaps([sizeMap |-> <<>>, lineMap |-> <<>>],
                               getFileStates(files, SplitStr(rawPath, ",")), files)
       IN  /\ fileSizeMap' = maps.sizeMap
           /\ fileLineMap' = maps.lineMap
    /\ UNCHANGED <<rawPath, cleanPath, files, stream, isActive, timerOn, aborted,
                   reads, hist, segVars, arVars>>

\* the local extraction route: the records of the log files of one folder
RECURSIVE LocalFolderLogs(_, _, _, _, _)
LocalFolderLogs(fs, folderName, logFiles, range, zone) ==
    IF logFiles = <<>> THEN <<>>
    ELSE localProcessLogContent(fs[folderName \o "/" \o Head(logFiles)],
                                folderName, Head(logFiles), range, zone)
            \o LocalFolderLogs(fs, folderName, Tail(logFiles), range, zone)

\* the local extraction route: the loop of POST over the requested folders
RECURSIVE LocalExtractFolders(_, _, _, _)
LocalExtractFolders(fs, folders, range, zone) ==
    IF folders = <<>> THEN <<>>
    ELSE LET folderName == Head(folders)
         IN  (IF \/ Includes(folderName, "..")
                 \/ Includes(folderName, "/")
                 \/ Includes(folderName, "\\")
              THEN <<>>
              ELSE LocalFolderLogs(fs, folderName, FindLogFiles(fs, folderName),
                                   range, zone))
             \o LocalExtractFolders(fs, Tail(folders), range, zone)

LocalValidate ==
    /\ normFolder = "unset"
    /\ normFolder' = "local"
    /\ segLogs' = LocalExtractFolders(files, SplitStr(rawPath, ","), dateRange, tz)
    /\ UNCHANGED <<rawPath, cleanPath, content, segMode, dateRange, tz, arVars,
                   tailVars>>

FolderNext == TailValidate \/ LocalValidate

FolderSpec == FolderInit /\ [][FolderNext]_vars

\* the name contains "..", "~" or a path separator
ForbiddenFolderName(name) ==
    \/ Includes(name, "..")
    \/ Includes(name, "~")
    \/ Includes(name, "/")
    \/ Includes(name, "\\")

\* the log file of the folder was read
FolderWasRead(name) ==
    IF normFolder = "tail"
    THEN (name \o "/app.log") \in DOMAIN fileSizeMap
    ELSE \E i \in 1..Len(segLogs) : segLogs[i].folder = name

\* C20: tailing and local extraction skip every requested folder name that
\* contains "..", "~" or a path separator, reading nothing for it, and still
\* process the other requested names.
C20_ForbiddenFolderNamesSkipped ==
    normFolder # "unset" =>
        \A i \in 1..Len(SplitStr(rawPath, ",")) :
            LET name == SplitStr(rawPath, ",")[i]
            IN  FolderWasRead(name) <=> ~ForbiddenFolderName(name)

-----------------------------------------------------------------------------
(* Folder names resolved beneath the configured root, on a directory tree  *)
(* with a file directly under the root, nested folders and a folder no     *)
(* request names.                                                          *)

LogsRoot == "/logs"

\* the log files of the tree, in the order a recursive readdirSync visits them
TreePaths ==
    <<"/logs/other/secret.log", "/logs/root.log", "/logs/svc1/app.log",
      "/logs/svc1/sub/deep.log", "/logs/svc2/app.log">>

TreeFs == [p \in {TreePaths[i] : i \in 1..Len(TreePaths)} |-> <<ErrorLine, NL>>]

TreeFolderNames == {"svc1", "svc2", ".", "", "svc1/sub"}

TreeRequests ==
    {<<a>> : a \in TreeFolderNames}
        \cup {<<a, b>> : a, b \in TreeFolderNames}
        \cup {<<a, b, c>> : a, b, c \in TreeFolderNames}

\* path.join of two parts: empty parts are left out, the result is normalized
PathJoin(a, b) == PathNormalize(IF b = "" THEN a ELSE a \o "/" \o b)

\* path.resolve of an absolute path
PathResolve(p) == StripTrailingSlashes(PathNormalize(p))

\* path.relative(from, to) for a file beneath from
PathRelative(from, to) == SubSeq(to, Len(StripTrailingSlashes(from)) + 2, Len(to))

\* statSync(dirPath).isDirectory()
IsDirectory(fs, dirPath) ==
    \E p \in DOMAIN fs : StartsWith(p, StripTrailingSlashes(dirPath) \o "/")

\* findLogFilesRecursive on a directory tree
findLogFilesRecursive(fs, dirPath) ==
    SelectSeq(TreePaths,
              LAMBDA p : /\ p \in DOMAIN fs
                         /\ StartsWith(p, StripTrailingSlashes(dirPath) \o "/")
                         /\ IsLocalLogFile(Basename(p)))

\* the two tests a folder name passes before its directory is read
FolderNameAccepted(localLogsPath, folderName) ==
    /\ ~(\/ Includes(folderName, "..")
         \/ Includes(folderName, "/")
         \/ Includes(folderName, "\\"))
    /\ StartsWith(PathResolve(PathJoin(localLogsPath, folderName)),
                  PathResolve(localLogsPath))

\* getFileStates: the FileState entries pushed for one folder name
FileStatesOfFolder(fs, localLogsPath, folderName) ==
    LET folderPath == PathJoin(localLogsPath, folderName)
        logFiles   == findLogFilesRecursive(fs, folderPath)
    IN  IF FolderNameAccepted(localLogsPath, folderName) /\ IsDirectory(fs, folderPath)
        THEN [i \in 1..Len(logFiles) |->
                [path         |-> logFiles[i],
                 folder       |-> folderName,
                 relativePath |-> PathRelative(folderPath, logFiles[i]),
                 size         |-> TextLength(fs[logFiles[i]])]]
        ELSE <<>>

\* getFileStates with the folder paths resolved beneath localLogsPath
RECURSIVE getFileStatesBeneath(_, _, _)
getFileStatesBeneath(fs, localLogsPath, folders) ==
    IF folders = <<>> THEN <<>>
    ELSE FileStatesOfFolder(fs, localLogsPath, Head(folders))
            \o getFileStatesBeneath(fs, localLogsPath, Tail(folders))

\* POST of the local extraction route: the records of one folder's log files
RECURSIVE LogsOfFiles(_, _, _, _, _, _)
LogsOfFiles(fs, folderPath, folderName, logFiles, range, zone) ==
    IF logFiles = <<>> THEN <<>>
    ELSE localProcessLogContent(fs[Head(logFiles)], folderName,
                                PathRelative(folderPath, Head(logFiles)), range, zone)
            \o LogsOfFiles(fs, folderPath, folderName, Tail(logFiles), range, zone)

\* POST of the local extraction route: the loop over the requested folders
RECURSIVE LogsOfFolders(_, _, _, _, _)
LogsOfFolders(fs, localLogsPath, folders, range, zone) ==
    IF folders = <<>> THEN <<>>
    ELSE LET folderName == Head(folders)
             folderPath == PathJoin(localLogsPath, folderName)
         IN  (IF FolderNameAccepted(localLogsPath, folderName)
                    /\ IsDirectory(fs, folderPath)
              THEN LogsOfFiles(fs, folderPath, folderName,
                               findLogFilesRecursive(fs, folderPath), range, zone)
              ELSE <<>>)
             \o LogsOfFolders(fs, localLogsPath, Tail(folders), range, zone)

TreeInit ==
    /\ rawPath \in {Join(req, ",") : req \in TreeRequests} \ {""}
    /\ cleanPath = "idle"
    /\ normFolder = "unset"
    /\ files = TreeFs
    /\ fileSizeMap = <<>>
    /\ fileLineMap = <<>>
    /\ stream = <<>>
    /\ isActive = FALSE
    /\ timerOn = FALSE
    /\ aborted = FALSE
    /\ reads = 0
    /\ hist = <<>>
    /\ SegIdle /\ ArIdle

\* the tail route: start() records the files found beneath the requested folders
TreeTail ==
    /\ normFolder = "unset"
    /\ normFolder' = "tail"
    /\ LET maps == InitialMaps([sizeMap |-> <<>>, lineMap |-> <<>>],
                               getFileStatesBeneath(files, LogsRoot,
                                                    SplitStr(rawPath, ",")),
                               files)
       IN  /\ fileSizeMap' = maps.sizeMap
           /\ fileLineMap' = maps.lineMap
    /\ UNCHANGED <<rawPath, cleanPath, files, stream, isActive, timerOn, aborted,
                   reads, hist, segVars, arVars>>

\* the local extraction route on the same folder names
TreeLocal ==
    /\ normFolder = "unset"
    /\ normFolder' = "local"
    /\ segLogs' = LogsOfFolders(files, LogsRoot, SplitStr(rawPath, ","), dateRange, tz)
    /\ UNCHANGED <<rawPath, cleanPath, content, segMode, dateRange, tz, arVars,
                   tailVars>>

TreeNext == TreeTail \/ TreeLocal

TreeSpec == TreeInit /\ [][TreeNext]_vars

\* the files read by the route that ran
TreeFilesRead ==
    IF normFolder = "tail" THEN DOMAIN fileSizeMap
    ELSE {PathJoin(PathJoin(LogsRoot, segLogs[i].folder), segLogs[i].file) :
            i \in 1..Len(segLogs)}

\* the directories directly under the root
ChildFolders == {"other", "svc1", "svc2"}

\* C21: every file read lies beneath an immediate child directory of the root
\* that the request names; nothing is read from the root itself or from a
\* folder the request does not name.
C21_OnlyRequestedChildFoldersRead ==
    normFolder # "unset" =>
        \A p \in TreeFilesRead :
            \E i \in 1..Len(SplitStr(rawPath, ",")) :
                LET name == SplitStr(rawPath, ",")[i]
                IN  /\ name \in ChildFolders
                    /\ StartsWith(p, LogsRoot \o "/" \o name \o "/")

-----------------------------------------------------------------------------
(* The folder of a path, by the stated algorithm over the segment classes. *)

\* the segments that are dropped first: empty, ".", date-stamped, "__"-prefixed
DroppedNames == {"", ".", "2024-01-01", "__MACOSX"}

CleanedOf(path) ==
    SelectSeq(SplitStr(path, "/"), LAMBDA seg : seg \notin DroppedNames)

FirstTwoOrSole(segs) ==
    IF Len(segs) >= 2 THEN segs[1] \o "/" \o segs[2] ELSE segs[1]

\* the folder the stated algorithm gives
StatedFolder(path) ==
    IF Len(MeaningfulOf(path)) >= 1 THEN FirstTwoOrSole(MeaningfulOf(path))
    ELSE IF Len(CleanedOf(path)) >= 1 THEN FirstTwoOrSole(CleanedOf(path))
    ELSE "root"

\* C22: the folder is the first two meaningful segments, or the only one, or
\* else the first two cleaned segments, or the only one, or "root"; it is
\* never empty and has at most two segments.
C22_FolderFollowsStatedAlgorithm ==
    normFolder \notin {"unset", "idle"} =>
        /\ normFolder = StatedFolder(rawPath)
        /\ normFolder # ""
        /\ Len(SplitStr(normFolder, "/")) <= 2

C22_Witness ==
    /\ rawPath = "var/2024-01-01/log/__MACOSX"
    /\ normFolder = "var/log"

-----------------------------------------------------------------------------
(* The line number of a record against the line its content starts with.   *)

FirstLineOf(text) == SplitStr(text, NL)[1]

\* C23: the lineNumber of every emitted record is the 1-based index, in the
\* source file, of a line that matches the anchor pattern and is the record's
\* anchor, the line its content starts with.
C23_LineNumberIsRecordAnchor ==
    segMode \in {"archive", "local", "tail"} =>
        \A r \in 1..Len(segLogs) :
            LET n == segLogs[r].lineNumber
            IN  /\ n \in 1..Len(SegLines)
                /\ IsAnchorAt(n)
                /\ FirstLineOf(segLogs[r].content) = Trim(SegLines[n])

-----------------------------------------------------------------------------
(* Extraction of archives whose files hold several records, the later      *)
(* files older records than the earlier ones.                              *)

OrdEntrySet ==
    {[name |-> "svc1/app.log",     type |-> "file",
      text |-> <<ErrorLine, NL, StackLine, NL, WarnLine>>],
     [name |-> "/var/log/sys.txt", type |-> "file",
      text |-> <<OldLine, NL, OldLine, NL>>],
     [name |-> "svc1/readme.md",   type |-> "file", text |-> <<WarnLine>>],
     [name |-> "../../etc/passwd", type |-> "file", text |-> <<WarnLine, NL>>]}

OrdArchives ==
    {a \in UNION {[1..n -> OrdEntrySet] : n \in 1..MaxEntries} : DistinctNames(a)}

OrdInit ==
    /\ arKind \in {"zip", "tar"}
    /\ arOp = "extract"
    /\ arEntries \in OrdArchives
    /\ arPos = 1
    /\ arPc = IF arKind = "zip" THEN "loop" ELSE "header"
    /\ arLogs = <<>>
    /\ arStats = NoStats
    /\ arNext = [i \in 1..Len(arEntries) |-> 0]
    /\ arHandler = "none"
    /\ arStreamed = 0
    /\ arBuf = <<>>
    /\ arResult = "pending"
    /\ SegIdle /\ PathIdle /\ TailIdle

OrdNext ==
    \/ ZipExtractEntry
    \/ ZipExtractReturn
    \/ TarExtractOnEntry
    \/ TarOnData
    \/ TarOnEnd
    \/ TarOnFinish

OrdSpec == OrdInit /\ [][OrdNext]_vars

\* the position in the archive of the entry a record was read from
EntryOfRecord(log) ==
    CHOOSE i \in 1..Len(arEntries) : sanitizePath(arEntries[i].name) = log.file

\* C24: entries are processed one at a time in archive order: while an entry
\* is being read the records collected are exactly those of the entries
\* before it, and in the result the records of an earlier entry precede those
\* of a later one and the records of one file have strictly increasing line
\* numbers, whatever their dates.
C24_EntriesProcessedInOrder ==
    /\ arPc \in {"loop", "header", "stream"} =>
          arLogs = RecordsOf(SubSeq(arEntries, 1, arPos - 1))
    /\ arPc = "done" =>
          \A r, q \in 1..Len(arResult) :
              r < q =>
                  /\ EntryOfRecord(arResult[r]) <= EntryOfRecord(arResult[q])
                  /\ arResult[r].file = arResult[q].file =>
                        arResult[r].lineNumber < arResult[q].lineNumber

C24_Witness ==
    /\ arKind = "tar" /\ arPc = "done"
    /\ Len(arEntries) = 3
    /\ Len(arResult) = 4
    /\ arResult[1].file = "svc1/app.log" /\ arResult[1].lineNumber = 1
    /\ arResult[2].file = "svc1/app.log" /\ arResult[2].lineNumber = 3
    /\ arResult[3].file = "var/log/sys.txt" /\ arResult[3].lineNumber = 1
    /\ arResult[4].file = "var/log/sys.txt" /\ arResult[4].lineNumber = 2
    /\ arResult[3].date < arResult[2].date

-----------------------------------------------------------------------------
(* Segmentation of one file under a date range, against its segmentation   *)
(* with no range.                                                          *)

FilterLines == {ErrorLine, OldLine, StackLine, BadMonthLine}

FilterContents ==
    {ChunksOf(ls) : ls \in UNION {[1..n -> FilterLines] : n \in 1..MaxLines}}

FilterRanges ==
    {NoRange,
     [startDate |-> RangeDay, endDate |-> RangeDay],
     [startDate |-> "", endDate |-> "2023-12-31"]}

FilterInit ==
    /\ content \in FilterContents
    /\ segMode = "none"
    /\ segLogs = <<>>
    /\ dateRange \in FilterRanges
    /\ tz \in {0, 19800}
    /\ PathIdle /\ ArIdle /\ TailIdle

FilterNext == SegArchive \/ SegLocal

FilterSpec == FilterInit /\ [][FilterNext]_vars

\* the records of the same content with no date range
Unfiltered ==
    IF segMode = "local"
    THEN localProcessLogContent(content, SegFolder, SegName, NoRange, tz)
    ELSE processLogContent(content, SegFile, NoRange, tz)

\* C25: the records returned under a date range are exactly those of the
\* records returned with no range whose date is in the window, in the same
\* order, with the same line number and content.
C25_FilterOnlyRemovesRecords ==
    segMode \in {"archive", "local"} =>
        segLogs = SelectSeq(Unfiltered,
                            LAMBDA log : isInDateRange([valid |-> TRUE, t |-> log.date],
                                                       dateRange, tz))

\* an old record with a continuation line is removed, the record after it kept
C25_Witness ==
    /\ segMode = "archive"
    /\ content = <<OldLine, NL, StackLine, NL, ErrorLine>>
    /\ dateRange = [startDate |-> RangeDay, endDate |-> RangeDay]
    /\ Len(Unfiltered) = 2
    /\ Len(segLogs) = 1
    /\ segLogs[1].lineNumber = 3
    /\ segLogs[1].content = ErrorLine

-----------------------------------------------------------------------------
(* The records a session has emitted for the watched file against one pass *)
(* over everything appended to it.                                         *)

\* the file holds whole lines only: no write has continued an unfinished line
WholeLinesOnly(p) ==
    \A i \in 1..Len(SplitLines(files[p])) :
        SplitLines(files[p])[i] \in TailLines \cup {""}

\* lineNumber and content of the records emitted for a path, in order
EmittedFor(p) ==
    LET positions == SelectSeq([i \in 1..Len(stream) |-> i],
                               LAMBDA i : i \in LogPositions(p))
    IN  [k \in 1..Len(positions) |->
            <<stream[positions[k]].log.lineNumber, stream[positions[k]].log.content>>]

\* the records of one pass over the lines appended since the session started
OnePassFor(p) ==
    LET lines  == SplitLines(files[p])
        suffix == SubSeq(lines, hist[p].first + 1, Len(lines))
        logs   == processNewContent(Join(suffix, NL), "svc1", Basename(p),
                                    hist[p].first, tz)
    IN  [k \in 1..Len(logs) |-> <<logs[k].lineNumber, logs[k].content>>]

\* C26: once a tick has seen everything written, the records emitted over all
\* ticks for a file watched from the start have the line numbers and contents
\* of one segmentation pass over the whole appended suffix, however the
\* appended lines were spread over the ticks.
C26_TailEqualsOnePass ==
    (/\ stream[Len(stream)].type = "heartbeat"
     /\ ~aborted
     /\ ~hist[AppLog].pending.wrote
     /\ WholeLinesOnly(AppLog))
        => EmittedFor(AppLog) = OnePassFor(AppLog)

-----------------------------------------------------------------------------
(* Record ids and the client's de-duplication. files is the sequence of    *)
(* grown files a tick finds, each with its folder, its path in the folder, *)
(* the new lines and the line watermark; hist is the client's set of seen  *)
(* ids, segLogs the client's list of logs, reads the number of messages    *)
(* the client has handled.                                                 *)

IdFolders   == {"svc", "svc-a", "web"}
IdFileNames == {"b.log", "a-b.log"}
IdTexts     == {WarnLine, ErrorLine, StackLine \o NL \o WarnLine}

IdFiles ==
    [folder : IdFolders, relativePath : IdFileNames, text : IdTexts,
     previousLineCount : {0, 1}]

IdInit ==
    /\ files \in {<<f, g>> : f, g \in IdFiles}
    /\ files[1].folder # files[2].folder \/ files[1].relativePath # files[2].relativePath
    /\ stream = <<>>
    /\ hist = {}
    /\ reads = 0
    /\ segLogs = <<>>
    /\ content = <<>>
    /\ segMode = "idle"
    /\ dateRange = NoRange
    /\ tz = 0
    /\ fileSizeMap = <<>>
    /\ fileLineMap = <<>>
    /\ isActive = TRUE
    /\ timerOn = TRUE
    /\ aborted = FALSE
    /\ PathIdle /\ ArIdle

\* the records a tick enqueues for one grown file
TickLogs(file) ==
    LogMessages(processNewContent(file.text, file.folder, file.relativePath,
                                  file.previousLineCount, tz))

\* a tick over the grown files
IdTick ==
    /\ stream = <<>>
    /\ stream' = TickLogs(files[1]) \o TickLogs(files[2]) \o <<[type |-> "heartbeat"]>>
    /\ UNCHANGED <<files, fileSizeMap, fileLineMap, isActive, timerOn, aborted,
                   reads, hist, segVars, pathVars, arVars>>

\* eventSource.onmessage of the client
OnMessage ==
    /\ reads < Len(stream)
    /\ reads' = reads + 1
    /\ LET data == stream[reads + 1]
       IN  IF data.type = "log" /\ data.log.id \notin hist
           THEN /\ hist' = hist \cup {data.log.id}
                /\ segLogs' = Append(segLogs, data.log)
           ELSE UNCHANGED <<hist, segLogs>>
    /\ UNCHANGED <<files, fileSizeMap, fileLineMap, stream, isActive, timerOn,
                   aborted, content, segMode, dateRange, tz, pathVars, arVars>>

IdNext == IdTick \/ OnMessage

IdSpec == IdInit /\ [][IdNext]_vars

\* the two records differ in folder, file or starting line
DifferentRecords(a, b) ==
    a.folder # b.folder \/ a.file # b.file \/ a.lineNumber # b.lineNumber

\* C27: two emitted records that differ in folder, file or starting line have
\* different ids, so the client, once it has handled every message, holds
\* every emitted record.
C27_IdsCollisionFree ==
    /\ \A i, j \in 1..Len(stream) :
          (stream[i].type = "log" /\ stream[j].type = "log"
              /\ DifferentRecords(stream[i].log, stream[j].log))
            => stream[i].log.id # stream[j].log.id
    /\ (stream # <<>> /\ reads = Len(stream)) =>
          \A i \in 1..Len(stream) :
              stream[i].type = "log" =>
                  \E k \in 1..Len(segLogs) : ~DifferentRecords(segLogs[k], stream[i].log)

-----------------------------------------------------------------------------
(* The tail session on a file that other processes also truncate or        *)
(* replace by a shorter one.                                               *)

TruncatedContents == {<<>>, <<ErrorLine, NL>>}

\* another process truncates the watched file, or rotates it, when the
\* session has caught up with it
TailTruncate ==
    \E c \in TruncatedContents :
        /\ files[AppLog] # Absent
        /\ ~hist[AppLog].pending.wrote
        /\ fileSizeMap[AppLog] = TextLength(files[AppLog])
        /\ TextLength(c) < TextLength(files[AppLog])
        /\ files' = [files EXCEPT ![AppLog] = c]
        /\ hist' = [hist EXCEPT
                      ![AppLog].pending =
                          [appended |-> 0, plain |-> FALSE, wrote |-> TRUE]]
        /\ UNCHANGED <<fileSizeMap, fileLineMap, stream, isActive, timerOn,
                       aborted, reads, segVars, pathVars, arVars>>

\* a session that starts on a file of one terminated line
TruncInit == TailInit /\ files[AppLog] = <<WarnLine, NL>>

TruncNext == TailAppend \/ TailTruncate \/ Poll

TruncSpec == TruncInit /\ [][TruncNext]_vars

\* C28: the size watermark of a watched file never decreases, and a tick that
\* finds the file no larger than its size watermark emits no record for it
\* and leaves both its watermarks as they were.
C28_WatermarkNeverDecreases ==
    [][\A p \in DOMAIN fileSizeMap :
          /\ p \in DOMAIN fileSizeMap'
          /\ fileSizeMap'[p] >= fileSizeMap[p]
          /\ (reads' = reads + 1 /\ TextLength(files[p]) <= fileSizeMap[p]) =>
                /\ fileSizeMap'[p] = fileSizeMap[p]
                /\ fileLineMap'[p] = fileLineMap[p]
                /\ LogPositions(p)' = LogPositions(p)]_vars

\* a tick has passed over the rotated file, which is shorter than the size
\* watermark and holds an anchor line, and nothing was emitted for it
C28_Witness ==
    /\ files[AppLog] = <<ErrorLine, NL>>
    /\ fileSizeMap[AppLog] > TextLength(files[AppLog])
    /\ stream[Len(stream)].type = "heartbeat"
    /\ hist[AppLog].tick.wrote
    /\ ~hist[AppLog].pending.wrote
    /\ LogPositions(AppLog) = {}

-----------------------------------------------------------------------------
(* The two analysis readers on the same entries.                           *)

\* the analysis the other reader returns for the entries of the archive
OtherReaderAnalysis ==
    ResultOf(IF arKind = "zip" THEN "tar" ELSE "zip", "analyze", arEntries)

\* C29: for the same sequence of entries, the analysis of the archive read as
\* a ZIP and read as a tar.gz agree on totalFiles, logFiles, totalSize,
\* folders, dateRange and estimatedLogEntries.
C29_ZipAndTarAnalysisAgree ==
    arPc = "done" =>
        /\ arResult.totalFiles = OtherReaderAnalysis.totalFiles
        /\ arResult.logFiles = OtherReaderAnalysis.logFiles
        /\ arResult.totalSize = OtherReaderAnalysis.totalSize
        /\ arResult.folders = OtherReaderAnalysis.folders
        /\ arResult.dateRange = OtherReaderAnalysis.dateRange
        /\ arResult.estimatedLogEntries = OtherReaderAnalysis.estimatedLogEntries

-----------------------------------------------------------------------------
(* The routes' file type validation against the dispatch.                  *)

supportedTypes == {".zip", ".tar.gz", ".tgz"}

\* supportedTypes.some(type => archiveFile.name.toLowerCase().endsWith(type))
isSupported(name) ==
    \E type \in supportedTypes : EndsWith(ToLowerCase(name), type)

\* C30: every archive file name that passes the routes' supported-type check
\* is handed to the ZIP or the tar.gz reader and is never rejected with
\* "Unsupported file format".
C30_RouteAcceptedIsDispatched ==
    (isSupported(rawPath) /\ arPc # "dispatch") =>
        /\ arKind \in {"zip", "tar"}
        /\ arPc # "error"

=============================================================================
